---- MODULE Spec2Model ----
(***************************************************************************)
(* A model of wardreport (src/wardreport/common.py): the predicate-based   *)
(* partitioning helpers, the groupers, the percentage helper and the       *)
(* MemberReport aggregation built on them.                                 *)
(*                                                                         *)
(* Conventions.  A Python call either returns a value or raises; a result  *)
(* is the record Ok(v) or Raise(e), e the name of the exception class.  A  *)
(* Python dict is a TLA+ function whose DOMAIN is the set of keys present, *)
(* so a missing key is a key outside DOMAIN.  A predicate (a lambda) is    *)
(* given by its graph: a function from items to results, whose value is    *)
(* the truthiness of what the lambda returns.                              *)
(***************************************************************************)
EXTENDS Integers, Sequences, FiniteSets, TLC

VARIABLES
    call,   \* the function called and its arguments
    ret,    \* what the call returned or raised (NotCalled before the call)
    member_report,  \* the attributes of the MemberReport object
    out,    \* what print_report printed or raised (NotCalled before it)
    TEST_YEAR,  \* the module global of common.py:13
    heap    \* the objects the caller holds by reference (none where the
            \* arguments are given by value)

vars == <<call, ret, member_report, out, TEST_YEAR, heap>>

----------------------------------------------------------------------------
(* Results of calls *)

Ok(v) == [raised |-> "None", value |-> v]
Raise(e) == [raised |-> e, value |-> <<>>]
Raised(r) == r.raised # "None"
NotCalled == [raised |-> "NotCalled", value |-> <<>>]
Returned(r) == r.raised = "None"
Pending(r) == r.raised = "NotCalled"

\* r is the exception e; r is the value v
Raises(r, e) == r.raised = e
Returns(r, v) == r.raised = "None" /\ r.value = v

\* the items of a list
Elements(s) == {s[k] : k \in 1..Len(s)}

\* an object without attributes, a dict without keys
Empty == <<>>

\* TEST_YEAR = None (common.py:13); TEST_YEAR = year (line 24)
NoYear == <<>>
Year(year) == <<year>>

\* Body of the value v: v is computed once, whatever the number of uses Body
\* makes of it
Let(v, Body(_)) == CHOOSE r \in {Body(x) : x \in {v}} : TRUE

----------------------------------------------------------------------------
(* Bounds of the library harness *)

MaxLen == 3      \* longest item list
MaxPreds == 3    \* longest predicate list

\* the items of the generic partitions: three distinct values
Items == {0, 1, 2}
SeqUpTo(S, n) == UNION {[1..k -> S] : k \in 0..n}
Predicates == [Items -> {Ok(TRUE), Ok(FALSE)}]

----------------------------------------------------------------------------
(* partition, common.py:43-53 *)

\* index of the first item on which the predicate raises, 0 when none does
FirstRaising(pred, iterable) ==
    Let({k \in 1..Len(iterable) : Raised(pred[iterable[k]])}, LAMBDA bad :
        IF bad = {} THEN 0 ELSE CHOOSE k \in bad : \A j \in bad : k <= j)

filter(pred, iterable) == SelectSeq(iterable, LAMBDA x : pred[x].value)

filterfalse_keeps_all(pred, iterable) == iterable
filterfalse(pred, iterable) == SelectSeq(iterable, LAMBDA x : ~pred[x].value)

partition(pred, iterable) ==
    Let(<<pred, iterable>>, LAMBDA a :
        Let(FirstRaising(a[1], a[2]), LAMBDA k :
            IF k # 0 THEN Raise(a[1][a[2][k]].raised)
            ELSE Ok(<<filter(a[1], a[2]), filterfalse(a[1], a[2])>>)))

----------------------------------------------------------------------------
(* multi_partition, common.py:62-77 *)

\* line 67: one empty list per predicate
empty_partitions(predicates) == [idx \in 1..Len(predicates) |-> <<>>]

\* line 71: the item is appended under a predicate it satisfies, unless an
\* earlier predicate already took it
appends_to_every_match(hit, match) == hit
appends(hit, match) == hit /\ ~match

\* line 72: partitions[idx].append(member)
add_in_front(bucket, member) == <<member>> \o bucket
add(bucket, member) == Append(bucket, member)

\* line 74: the item satisfied no predicate
unmatched_is_ignored(match) == FALSE
unmatched(match) == ~match

\* lines 69-73: the loop over the predicates for one member.  Every
\* predicate is called, also after a match (the call is the left operand of
\* the "and").
classify(predicates, member, partitions) ==
    LET loop[idx \in 0..Len(predicates)] ==
            IF idx = 0
            THEN [match |-> FALSE, partitions |-> partitions, raised |-> "None"]
            ELSE Let(<<loop[idx - 1], predicates[idx][member]>>, LAMBDA a :
                   IF a[1].raised # "None" THEN a[1]
                   ELSE IF Raised(a[2]) THEN [a[1] EXCEPT !.raised = a[2].raised]
                   ELSE IF appends(a[2].value, a[1].match)
                        THEN [match |-> TRUE,
                              partitions |-> [a[1].partitions EXCEPT
                                                ![idx] = add(@, member)],
                              raised |-> "None"]
                        ELSE a[1])
    IN loop[Len(predicates)]

multi_partition(predicates, iterable) ==
    Let(<<predicates, iterable>>, LAMBDA a :
        LET loop[k \in 0..Len(a[2])] ==
                IF k = 0 THEN Ok(empty_partitions(a[1]))
                ELSE Let(loop[k - 1], LAMBDA prev :
                       IF Raised(prev) THEN prev
                       ELSE Let(classify(a[1], a[2][k], prev.value), LAMBDA c :
                              IF c.raised # "None" THEN Raise(c.raised)
                              ELSE IF unmatched(c.match) THEN Raise("ValueError")
                              ELSE Ok(c.partitions)))
        IN loop[Len(a[2])])

----------------------------------------------------------------------------
(* The harness of partition and multi_partition: the arguments are drawn   *)
(* in the initial state and one action applies the function to them.       *)

InitPartition ==
    /\ ret = NotCalled
    /\ member_report = Empty
    /\ out = NotCalled
    /\ TEST_YEAR = NoYear
    /\ heap = Empty
    /\ \/ \E pred \in Predicates, iterable \in SeqUpTo(Items, MaxLen) :
            call = [fn |-> "partition", pred |-> pred, iterable |-> iterable]
       \/ \E predicates \in SeqUpTo(Predicates, MaxPreds),
             iterable \in SeqUpTo(Items, MaxLen) :
            call = [fn |-> "multi_partition", predicates |-> predicates,
                    iterable |-> iterable]

CallPartition ==
    /\ call.fn = "partition"
    /\ Pending(ret)
    /\ ret' = partition(call.pred, call.iterable)
    /\ UNCHANGED <<call, member_report, out, TEST_YEAR, heap>>

CallMultiPartition ==
    /\ call.fn = "multi_partition"
    /\ Pending(ret)
    /\ ret' = multi_partition(call.predicates, call.iterable)
    /\ UNCHANGED <<call, member_report, out, TEST_YEAR, heap>>

NextPartition == CallPartition \/ CallMultiPartition

SpecPartition == InitPartition /\ [][NextPartition]_vars

----------------------------------------------------------------------------
(* Vocabulary of the claims about partition and multi_partition *)

Satisfies(pred, x) == pred[x].value
Matches(predicates, x) ==
    {idx \in 1..Len(predicates) : Satisfies(predicates[idx], x)}
FirstMatch(predicates, x) ==
    CHOOSE idx \in Matches(predicates, x) :
        \A j \in Matches(predicates, x) : idx <= j
Count(s, x) == Cardinality({k \in 1..Len(s) : s[k] = x})

\* the subsequence of s at the positions I, in the order of s
RECURSIVE Pick(_, _)
Pick(s, I) ==
    IF I = {} THEN <<>>
    ELSE LET m == CHOOSE i \in I : \A j \in I : j <= i
         IN Append(Pick(s, I \ {m}), s[m])

RECURSIVE TotalLen(_)
TotalLen(buckets) ==
    IF buckets = <<>> THEN 0
    ELSE Len(Head(buckets)) + TotalLen(Tail(buckets))

PartitionDone == call.fn = "partition" /\ ret.raised # "NotCalled"
MultiDone == call.fn = "multi_partition" /\ ret.raised # "NotCalled"
UnmatchedAt ==
    {k \in 1..Len(call.iterable) :
        Matches(call.predicates, call.iterable[k]) = {}}

\* C1: multi_partition fails the whole call (ValueError, the code's
\* unclassified-item error) whenever the list holds an item that satisfies
\* none of the predicates; no tuple of buckets is returned, even when earlier
\* items were classified.
C1_UnmatchedItemFailsCall ==
    (MultiDone /\ UnmatchedAt # {}) => Raises(ret, "ValueError")

C1_Witness ==
    /\ MultiDone
    /\ Len(call.iterable) >= 2
    /\ 1 \notin UnmatchedAt
    /\ 2 \in UnmatchedAt
    /\ Raises(ret, "ValueError")

\* C2: an item that satisfies several predicates is appended only to the
\* bucket of the first predicate it satisfies: every occurrence of it is in
\* that bucket, none in any other, and the call raises nothing for it.
C2_FirstMatchOnly ==
    (MultiDone /\ UnmatchedAt = {}) =>
        /\ Returned(ret)
        /\ \A x \in Elements(call.iterable) :
             \A idx \in 1..Len(call.predicates) :
                Count(ret.value[idx], x) =
                    IF idx = FirstMatch(call.predicates, x)
                    THEN Count(call.iterable, x) ELSE 0

C2_Witness ==
    /\ MultiDone
    /\ Returned(ret)
    /\ \E x \in Elements(call.iterable) :
         /\ Cardinality(Matches(call.predicates, x)) >= 2
         /\ FirstMatch(call.predicates, x) = 2
         /\ Count(ret.value[2], x) = 2

\* C3: when every item satisfies exactly one predicate, multi_partition
\* returns one bucket per predicate, the buckets are pairwise disjoint, their
\* lengths sum to the length of the input, and bucket k is the subsequence of
\* the input satisfying predicate k, in input order.
C3_ExactlyOnePartition ==
    (MultiDone /\ \A x \in Elements(call.iterable) :
                     Cardinality(Matches(call.predicates, x)) = 1) =>
        /\ Returned(ret)
        /\ Len(ret.value) = Len(call.predicates)
        /\ TotalLen(ret.value) = Len(call.iterable)
        /\ \A i, j \in 1..Len(ret.value) :
             i # j => Elements(ret.value[i]) \cap Elements(ret.value[j]) = {}
        /\ \A idx \in 1..Len(call.predicates) :
             ret.value[idx] =
                Pick(call.iterable,
                     {k \in 1..Len(call.iterable) :
                        Satisfies(call.predicates[idx], call.iterable[k])})

C3_Witness ==
    /\ MultiDone
    /\ Returned(ret)
    /\ Len(call.predicates) = 3
    /\ \A x \in Elements(call.iterable) :
         Cardinality(Matches(call.predicates, x)) = 1
    /\ Len(call.iterable) = 3
    /\ Len(ret.value[1]) = 2
    /\ ret.value[1][1] # ret.value[1][2]
    /\ Len(ret.value[3]) = 1

\* C4: partition returns (matching, non_matching): the subsequence of the
\* input satisfying the predicate and the subsequence not satisfying it, each
\* in input order, so every occurrence is in exactly one of the two and both
\* are empty for the empty input.
C4_PartitionSplits ==
    PartitionDone =>
        /\ Returned(ret)
        /\ ret.value[1] =
             Pick(call.iterable, {k \in 1..Len(call.iterable) :
                                    Satisfies(call.pred, call.iterable[k])})
        /\ ret.value[2] =
             Pick(call.iterable, {k \in 1..Len(call.iterable) :
                                    ~Satisfies(call.pred, call.iterable[k])})
        /\ Len(ret.value[1]) + Len(ret.value[2]) = Len(call.iterable)
        /\ (call.iterable = <<>> => ret.value = << <<>>, <<>> >>)

C4_Witness ==
    /\ PartitionDone
    /\ Len(call.iterable) = 3
    /\ Len(ret.value[1]) = 1
    /\ Len(ret.value[2]) = 2

\* C5: multi_partition raises an error when an item matches more than one
\* of the predicates (as well as when it matches none).
C5_MultipleMatchRaises ==
    (MultiDone /\ \E x \in Elements(call.iterable) :
                     Cardinality(Matches(call.predicates, x)) >= 2) =>
        Raised(ret)

\* what holds of multi_partition over predicates that do not raise
\* themselves: the call raises when some item matches none of them, and not
\* otherwise, an item matching several of them included
C5_NoMatchRaisesAndMultipleMatchDoesNot ==
    MultiDone => (Raised(ret) <=> UnmatchedAt # {})

\* an item matches all three predicates and the call returns
C5_Witness ==
    /\ MultiDone
    /\ Returned(ret)
    /\ \E k \in 1..Len(call.iterable) :
         Cardinality(Matches(call.predicates, call.iterable[k])) = 3

----------------------------------------------------------------------------
(* Python values *)

\* None; it is falsy and no key of the grouping dicts
None == "<None>"

\* truthiness of a string or None
truthy(v) == v # None /\ v # ""

\* d[key] and d.get(key) of a dict (string-valued fields)
has(d, key) == key \in DOMAIN d
get(d, key) == IF has(d, key) THEN d[key] ELSE None

----------------------------------------------------------------------------
(* priesthood_grouper, common.py:173-188 *)

PRIESTHOODS ==
    <<"HIGH_PRIEST", "ELDER", "PRIEST", "TEACHER", "DEACON", "UNORDAINED">>

\* lines 183-186: the bucket an office goes to
bucket_of(office, groups) ==
    IF office \in DOMAIN groups THEN office ELSE "UNORDAINED"

\* groups[key].append(member)
appended(groups, key, member) == [groups EXCEPT ![key] = Append(@, member)]

priesthood_grouper(members) ==
    Let(members, LAMBDA ms :
        LET loop[k \in 0..Len(ms)] ==
                IF k = 0 THEN Ok([i \in Elements(PRIESTHOODS) |-> <<>>])
                ELSE Let(loop[k - 1], LAMBDA groups :
                       IF Raised(groups) THEN groups
                       ELSE IF ~has(ms[k], "priesthoodOffice") THEN Raise("KeyError")
                       ELSE Ok(appended(groups.value,
                                        bucket_of(ms[k].priesthoodOffice, groups.value),
                                        ms[k])))
        IN loop[Len(ms)])

----------------------------------------------------------------------------
(* recommend_status_grouper, common.py:150-170 *)

STATUSES ==
    <<"ACTIVE", "CANCELED", "EXPIRED_LESS_THAN_1_MONTH",
      "EXPIRED_LESS_THAN_3_MONTHS", "EXPIRED_OVER_3_MONTHS",
      "EXPIRING_NEXT_MONTH", "EXPIRING_THIS_MONTH", "LOST_OR_STOLEN">>

recommend_status_grouper(recommend_status) ==
    Let(recommend_status, LAMBDA rs :
        LET loop[k \in 0..Len(rs)] ==
                IF k = 0 THEN Ok([i \in Elements(STATUSES) |-> <<>>])
                ELSE Let(<<loop[k - 1], get(rs[k], "recommendStatus")>>, LAMBDA a :
                       \* a[1] is groups so far, a[2] the status read by line 168
                       IF Raised(a[1]) THEN a[1]
                       ELSE IF ~truthy(a[2]) THEN a[1]
                       ELSE IF a[2] \notin DOMAIN a[1].value THEN Raise("KeyError")
                       ELSE Ok(appended(a[1].value, a[2], rs[k])))
        IN loop[Len(rs)])

----------------------------------------------------------------------------
(* The harness of the two groupers *)

Ids == {1, 2}
OfficeValues == {PRIESTHOODS[n] : n \in 1..Len(PRIESTHOODS)} \cup {"BISHOP", None}
StatusValues == {STATUSES[n] : n \in 1..Len(STATUSES)} \cup {"BOGUS", None, ""}

\* members as priesthood_grouper reads them: the office is one of the six, an
\* unknown string, None, or the key is missing
OfficeMembers ==
    {[legacyCmisId |-> i, priesthoodOffice |-> o] : i \in Ids, o \in OfficeValues}
        \cup {[legacyCmisId |-> i] : i \in Ids}

\* recommend records as recommend_status_grouper reads them
StatusRecords ==
    {[id |-> 1, recommendStatus |-> st] : st \in StatusValues} \cup {[id |-> 1]}

InitGroupers ==
    /\ ret = NotCalled
    /\ member_report = Empty
    /\ out = NotCalled
    /\ TEST_YEAR = NoYear
    /\ heap = Empty
    /\ \/ \E members \in SeqUpTo(OfficeMembers, MaxLen) :
            call = [fn |-> "priesthood_grouper", members |-> members]
       \/ \E recommend_status \in SeqUpTo(StatusRecords, MaxLen) :
            call = [fn |-> "recommend_status_grouper",
                    recommend_status |-> recommend_status]

CallPriesthoodGrouper ==
    /\ call.fn = "priesthood_grouper"
    /\ Pending(ret)
    /\ ret' = priesthood_grouper(call.members)
    /\ UNCHANGED <<call, member_report, out, TEST_YEAR, heap>>

CallRecommendStatusGrouper ==
    /\ call.fn = "recommend_status_grouper"
    /\ Pending(ret)
    /\ ret' = recommend_status_grouper(call.recommend_status)
    /\ UNCHANGED <<call, member_report, out, TEST_YEAR, heap>>

NextGroupers == CallPriesthoodGrouper \/ CallRecommendStatusGrouper

SpecGroupers == InitGroupers /\ [][NextGroupers]_vars

----------------------------------------------------------------------------
(* Claims about the groupers *)

PriesthoodDone == call.fn = "priesthood_grouper" /\ ret.raised # "NotCalled"
RecommendDone ==
    call.fn = "recommend_status_grouper" /\ ret.raised # "NotCalled"

Names(tuple) == {tuple[n] : n \in 1..Len(tuple)}
FiveOffices == Names(PRIESTHOODS) \ {"UNORDAINED"}

\* the bucket the spec gives a member: its office when that is one of the
\* five ordained offices, UNORDAINED for anything else, a missing key included
ExpectedOffice(member) ==
    IF has(member, "priesthoodOffice") /\ member.priesthoodOffice \in FiveOffices
    THEN member.priesthoodOffice ELSE "UNORDAINED"

\* number of records of a grouping, over all its buckets
RECURSIVE GroupTotal(_, _)
GroupTotal(groups, keys) ==
    IF keys = {} THEN 0
    ELSE LET key == CHOOSE x \in keys : TRUE
         IN Len(groups[key]) + GroupTotal(groups, keys \ {key})

\* every occurrence of each member is in the bucket Expected names and in no
\* other
GroupedAs(groups, members, Expected(_)) ==
    \A m \in Elements(members) : \A key \in DOMAIN groups :
        Count(groups[key], m) =
            IF key = Expected(m) THEN Count(members, m) ELSE 0

\* C6: priesthood_grouper is total: whatever the office of a member (one of
\* the six, an unknown string, None, or no such key) the call returns, the
\* member is in exactly one of the six buckets, in UNORDAINED unless its office
\* is one of the other five, and the six sizes sum to the input length.
C6_PriesthoodGrouperTotal ==
    PriesthoodDone =>
        /\ Returned(ret)
        /\ DOMAIN ret.value = Names(PRIESTHOODS)
        /\ GroupedAs(ret.value, call.members, ExpectedOffice)
        /\ GroupTotal(ret.value, Names(PRIESTHOODS)) = Len(call.members)

\* what holds of priesthood_grouper: C6 for the members that carry the key
C6_TotalWhenKeyPresent ==
    (PriesthoodDone /\ \A m \in Elements(call.members) : has(m, "priesthoodOffice")) =>
        /\ Returned(ret)
        /\ GroupedAs(ret.value, call.members, ExpectedOffice)
        /\ GroupTotal(ret.value, Names(PRIESTHOODS)) = Len(call.members)

C6_RaisesOnMissingKey ==
    (PriesthoodDone /\ \E m \in Elements(call.members) : ~has(m, "priesthoodOffice")) =>
        Raises(ret, "KeyError")

\* the bucket the spec gives a recommend record: the one its status names,
\* none when the status is missing or not one of the eight
ExpectedStatus(status) ==
    IF has(status, "recommendStatus") /\ status.recommendStatus \in Names(STATUSES)
    THEN status.recommendStatus ELSE "none"

\* C7: recommend_status_grouper never fails: a record whose status is missing
\* or not one of the eight is in none of the eight buckets, and a record with
\* a recognized status is in exactly the bucket its status names.
C7_RecommendGrouperPartial ==
    RecommendDone =>
        /\ Returned(ret)
        /\ DOMAIN ret.value = Names(STATUSES)
        /\ GroupedAs(ret.value, call.recommend_status, ExpectedStatus)

\* what holds of recommend_status_grouper: C7 when every status is one of the
\* eight or falsy (missing, None, empty), and a KeyError otherwise
C7_PartialWhenStatusKnownOrFalsy ==
    (RecommendDone /\ \A r \in Elements(call.recommend_status) :
                         ~truthy(get(r, "recommendStatus"))
                            \/ r.recommendStatus \in Names(STATUSES)) =>
        /\ Returned(ret)
        /\ GroupedAs(ret.value, call.recommend_status, ExpectedStatus)

C7_RaisesOnUnknownStatus ==
    (RecommendDone /\ \E r \in Elements(call.recommend_status) :
                         truthy(get(r, "recommendStatus"))
                            /\ r.recommendStatus \notin Names(STATUSES)) =>
        Raises(ret, "KeyError")

----------------------------------------------------------------------------
(* percent_str, common.py:191-193 *)

DIGITS == <<"0", "1", "2", "3", "4", "5", "6", "7", "8", "9">>

\* str(n) of a non-negative int
RECURSIVE str(_)
str(n) == IF n < 10 THEN DIGITS[n + 1] ELSE str(n \div 10) \o DIGITS[(n % 10) + 1]

\* the "," of the format: a separator before every group of three digits
RECURSIVE thousands(_)
thousands(n) ==
    IF n < 1000 THEN str(n)
    ELSE thousands(n \div 1000) \o "," \o DIGITS[((n \div 100) % 10) + 1]
            \o DIGITS[((n \div 10) % 10) + 1] \o DIGITS[(n % 10) + 1]

\* A float is m * 2^e with a significand m of at most MANT_DIG bits.  The
\* significand is a natural number written in base LIMB, least significant
\* digit first, so that no step leaves the machine integers.
MANT_DIG == 53
LIMB_BITS == 10
LIMB == 2^LIMB_BITS

\* the digits of a non-negative int, and the int of its digits
RECURSIVE nat(_)
nat(n) == IF n < LIMB THEN <<n>> ELSE <<n % LIMB>> \o nat(n \div LIMB)

RECURSIVE int(_)
int(N) == IF N = <<>> THEN 0 ELSE N[1] + LIMB * int(Tail(N))

digit(N, j) == IF j <= Len(N) THEN N[j] ELSE 0

\* N * m + carry, for a small m
RECURSIVE times(_, _, _)
times(N, m, carry) ==
    IF N = <<>> THEN (IF carry = 0 THEN <<>> ELSE nat(carry))
    ELSE Let(N[1] * m + carry, LAMBDA t :
            <<t % LIMB>> \o times(Tail(N), m, t \div LIMB))

\* N + 1
RECURSIVE inc(_)
inc(N) ==
    IF N = <<>> THEN <<1>>
    ELSE IF N[1] + 1 < LIMB THEN <<N[1] + 1>> \o Tail(N)
    ELSE <<0>> \o inc(Tail(N))

\* N * 2^k
shift_left(N, k) ==
    [j \in 1..(k \div LIMB_BITS) |-> 0] \o times(N, 2^(k % LIMB_BITS), 0)

\* quotient and remainder of N by a small d, the high digits first
RECURSIVE divmod(_, _)
divmod(N, d) ==
    IF N = <<>> THEN [q |-> <<>>, r |-> 0]
    ELSE Let(divmod(Tail(N), d), LAMBDA hi :
            Let(hi.r * LIMB + N[1], LAMBDA t :
                [q |-> <<t \div d>> \o hi.q, r |-> t % d]))

\* the number of bits of a small n, and of N
RECURSIVE bits(_)
bits(n) == IF n = 0 THEN 0 ELSE 1 + bits(n \div 2)

RECURSIVE bit_length(_)
bit_length(N) ==
    IF N = <<>> THEN 0
    ELSE Let(bit_length(Tail(N)), LAMBDA hi :
            IF hi > 0 THEN LIMB_BITS + hi ELSE bits(N[1]))

\* bit j of N, the lowest being bit 0; whether a bit below bit j is set
bit(N, j) == (digit(N, (j \div LIMB_BITS) + 1) \div 2^(j % LIMB_BITS)) % 2

below(N, j) ==
    \/ \E i \in 1..(j \div LIMB_BITS) : digit(N, i) # 0
    \/ digit(N, (j \div LIMB_BITS) + 1) % 2^(j % LIMB_BITS) # 0

\* N \div 2^k
shift_right(N, k) ==
    Let(<<k \div LIMB_BITS, k % LIMB_BITS>>, LAMBDA s :
        IF Len(N) <= s[1] THEN <<>>
        ELSE [i \in 1..(Len(N) - s[1]) |->
                (N[s[1] + i] \div 2^s[2])
                    + (digit(N, s[1] + i + 1) % 2^s[2]) * 2^(LIMB_BITS - s[2])])

\* N / 2^k rounded to the nearest integer, a tie going to the even one
round_half_even(N, k) ==
    IF k = 0 THEN N
    ELSE Let(shift_right(N, k), LAMBDA q :
            IF bit(N, k - 1) = 1 /\ (below(N, k - 1) \/ digit(q, 1) % 2 = 1)
            THEN inc(q) ELSE q)

\* the float nearest to N * 2^e
nearest(N, e) ==
    Let(bit_length(N) - MANT_DIG, LAMBDA k :
        IF k <= 0 THEN [m |-> N, e |-> e]
        ELSE [m |-> round_half_even(N, k), e |-> e + k])

\* top / bottom of two ints (line 192): the quotient is taken with two bits
\* more than a float holds, its last bit set when the division leaves a
\* remainder, and rounded once
truediv(top, bottom) ==
    Let(MANT_DIG + 2 + bits(bottom), LAMBDA k :
        Let(divmod(shift_left(nat(top), k), bottom), LAMBDA d :
            nearest(times(d.q, 2, IF d.r = 0 THEN 0 ELSE 1), 0 - (k + 1))))

\* x * factor for a small whole factor (line 192: * 100)
mul(x, factor) == nearest(times(x.m, factor, 0), x.e)

\* the ".0f" of the format (line 193): the integer nearest to the float, a
\* tie going to the even one
fixed(x) ==
    IF x.e >= 0 THEN int(shift_left(x.m, x.e))
    ELSE int(round_half_even(x.m, 0 - x.e))

\* what the format prints of (top / bottom) * 100, the float: not always the
\* rounding of the exact 100 * top / bottom (percent_str(23, 40) is '57%',
\* the float being 57.49999999999999)
rounded_percent(top, bottom) == fixed(mul(truediv(top, bottom), 100))

percent_str(top, bottom) ==
    IF bottom = 0 THEN Raise("ZeroDivisionError")
    ELSE Ok(thousands(rounded_percent(top, bottom)) \o "%")

----------------------------------------------------------------------------
(* The harness of percent_str *)

MaxTop == 12      \* largest numerator
MaxBottom == 8    \* largest denominator

InitPercent ==
    /\ ret = NotCalled
    /\ member_report = Empty
    /\ out = NotCalled
    /\ TEST_YEAR = NoYear
    /\ heap = Empty
    /\ \E top \in 0..MaxTop, bottom \in 0..MaxBottom :
         call = [fn |-> "percent_str", top |-> top, bottom |-> bottom]

CallPercentStr ==
    /\ call.fn = "percent_str"
    /\ Pending(ret)
    /\ ret' = percent_str(call.top, call.bottom)
    /\ UNCHANGED <<call, member_report, out, TEST_YEAR, heap>>

NextPercent == CallPercentStr

SpecPercent == InitPercent /\ [][NextPercent]_vars

PercentDone == call.fn = "percent_str" /\ ret.raised # "NotCalled"

\* C9: percent_str does not raise on a zero denominator: percent_str(x, 0)
\* returns "0%" for every x, x = 0 included.
C9_ZeroDenominatorIsZeroPercent ==
    (PercentDone /\ call.bottom = 0) => Returns(ret, "0%")

\* what holds of percent_str: every zero denominator raises ZeroDivisionError
C9_ZeroDenominatorRaises ==
    (PercentDone /\ call.bottom = 0) => Raises(ret, "ZeroDivisionError")

\* the cases of test_percent_str (test_lib.py:142-150) and the separator
C9_TestPercentStr ==
    /\ Returns(percent_str(2, 1), "200%")
    /\ Returns(percent_str(1, 1), "100%")
    /\ Returns(percent_str(1, 2), "50%")
    /\ Returns(percent_str(0, 2), "0%")
    /\ Returns(percent_str(1, 8), "12%")
    /\ Returns(percent_str(3, 8), "38%")
    /\ Returns(percent_str(10, 1), "1,000%")

----------------------------------------------------------------------------
(* The splitters, common.py:56-58 and 80-91 *)

\* the graph of a lambda over the items of a list
graph(P(_), iterable) == [x \in Elements(iterable) |-> P(x)]

\* line 56: lambda i: i['isMember'] is True
is_member_whatever_the_flag(i) ==
    IF has(i, "isMember") THEN Ok(TRUE) ELSE Raise("KeyError")
is_member(i) ==
    IF has(i, "isMember") THEN Ok(i.isMember = TRUE) ELSE Raise("KeyError")
member_splitter(members) == partition(graph(is_member, members), members)

\* line 58: lambda i: i['sex'] == 'M'
is_male(i) == IF has(i, "sex") THEN Ok(i.sex = "M") ELSE Raise("KeyError")
male_splitter(members) == partition(graph(is_male, members), members)

\* line 80: lambda i: i['isSingleAdult'] or i['isYoungSingleAdult']
is_single(i) ==
    IF ~has(i, "isSingleAdult") THEN Raise("KeyError")
    ELSE IF i.isSingleAdult THEN Ok(TRUE)
    ELSE IF ~has(i, "isYoungSingleAdult") THEN Raise("KeyError")
    ELSE Ok(i.isYoungSingleAdult)
single_splitter(members) == partition(graph(is_single, members), members)

\* a lambda that compares i['age']
on_age(i, P(_)) == IF has(i, "age") THEN Ok(P(i.age)) ELSE Raise("KeyError")

\* lines 81-85: the predicates of _single_age_partition
is_single_18(i) == on_age(i, LAMBDA a : 18 <= a /\ a <= 30)
is_single_31(i) == on_age(i, LAMBDA a : 31 <= a /\ a <= 45)
is_single_46(i) == on_age(i, LAMBDA a : 46 <= a)
catch_all(i) == Ok(TRUE)

single_age_partition(members) ==
    multi_partition(<<graph(is_single_18, members), graph(is_single_31, members),
                      graph(is_single_46, members), graph(catch_all, members)>>,
                    members)

\* lines 88-91
singles_by_age(members) ==
    Let(single_splitter(members), LAMBDA split :
        IF Raised(split) THEN split
        ELSE Let(single_age_partition(split.value[1]), LAMBDA by_age :
               IF Raised(by_age) THEN by_age
               ELSE Ok(<<by_age.value[1], by_age.value[2], by_age.value[3]>>)))

----------------------------------------------------------------------------
(* household_grouper, common.py:27-35 *)

\* d[key] = v unless d holds the key
store_unless_present(d, key, v) ==
    [k \in DOMAIN d \cup {key} |-> IF k \in DOMAIN d THEN d[k] ELSE v]
\* d[key] = v of a dict
store(d, key, v) == [k \in DOMAIN d \cup {key} |-> IF k = key THEN v ELSE d[k]]

\* line 34: households[household_uuid].append(member), on a defaultdict
household_append(households, household_uuid, member) ==
    store(households, household_uuid,
          Append(IF household_uuid \in DOMAIN households
                 THEN households[household_uuid] ELSE <<>>, member))

household_grouper(members) ==
    Let(members, LAMBDA ms :
        LET loop[k \in 0..Len(ms)] ==
                IF k = 0 THEN Ok(Empty)
                ELSE Let(loop[k - 1], LAMBDA households :
                       IF Raised(households) THEN households
                       ELSE IF ~has(ms[k], "householdAnchorPersonUuid")
                            THEN Raise("KeyError")
                       ELSE Ok(household_append(households.value,
                                                ms[k].householdAnchorPersonUuid,
                                                ms[k])))
        IN loop[Len(ms)])

----------------------------------------------------------------------------
(* The calling lookup, common.py:94-130 *)

\* the first calling of a sub-group only
visit_callings_first_only(new_callings, children) ==
    IF Raised(new_callings) THEN new_callings
    ELSE IF ~has(children, "callings") THEN Raise("KeyError")
    ELSE IF children.callings = <<>> THEN new_callings
    ELSE IF ~has(children.callings[1], "memberId") THEN Raise("KeyError")
    ELSE Ok(store(new_callings.value, children.callings[1].memberId,
                  children.callings[1]))

\* lines 101-102: the callings of one sub-group
visit_callings(new_callings, children) ==
    IF Raised(new_callings) THEN new_callings
    ELSE IF ~has(children, "callings") THEN Raise("KeyError")
    ELSE LET loop[k \in 0..Len(children.callings)] ==
                IF k = 0 THEN new_callings
                ELSE Let(<<loop[k - 1], children.callings[k]>>, LAMBDA a :
                       \* a[1] is new_callings so far, a[2] the calling
                       IF Raised(a[1]) THEN a[1]
                       ELSE IF ~has(a[2], "memberId") THEN Raise("KeyError")
                       ELSE Ok(store(a[1].value, a[2].memberId, a[2])))
         IN loop[Len(children.callings)]

\* lines 100-102: the sub-groups of one group
visit_group(new_callings, group) ==
    IF Raised(new_callings) THEN new_callings
    ELSE IF ~has(group, "children") THEN Raise("KeyError")
    ELSE LET loop[k \in 0..Len(group.children)] ==
                IF k = 0 THEN new_callings
                ELSE Let(loop[k - 1], LAMBDA prev :
                       visit_callings(prev, group.children[k]))
         IN loop[Len(group.children)]

callings_by_member_id(callings) ==
    Let(callings, LAMBDA groups :
        LET loop[k \in 0..Len(groups)] ==
                IF k = 0 THEN Ok(Empty)
                ELSE Let(loop[k - 1], LAMBDA prev : visit_group(prev, groups[k]))
        IN loop[Len(groups)])

\* d.get(key): found is FALSE when get returns None
lookup(d, key) ==
    IF key \in DOMAIN d THEN [found |-> TRUE, record |-> d[key]]
    ELSE [found |-> FALSE, record |-> Empty]

\* lines 116-118, callings being the dict the maker closed over
calling_finder(callings, member) ==
    IF has(member, "legacyCmisId")
    THEN Ok(lookup(callings, member.legacyCmisId))
    ELSE Raise("KeyError")

\* line 130: lambda i: calling_finder(i), a dict being true unless empty
has_calling(callings, i) ==
    Let(calling_finder(callings, i), LAMBDA r :
        IF Raised(r) THEN r
        ELSE Ok(r.value.found /\ DOMAIN r.value.record # {}))

calling_splitter(callings, members) ==
    Let(<<callings, members>>, LAMBDA a :
        partition([x \in Elements(a[2]) |-> has_calling(a[1], x)], a[2]))

----------------------------------------------------------------------------
(* The recommend lookup, common.py:133-147 *)

\* line 137: {i['id']: i for i in recommend_status}
recommend_finder_maker(recommend_status) ==
    Let(recommend_status, LAMBDA rs :
        LET loop[k \in 0..Len(rs)] ==
                IF k = 0 THEN Ok(Empty)
                ELSE Let(loop[k - 1], LAMBDA recommends :
                       IF Raised(recommends) THEN recommends
                       ELSE IF ~has(rs[k], "id") THEN Raise("KeyError")
                       ELSE Ok(store(recommends.value, rs[k].id, rs[k])))
        IN loop[Len(rs)])

\* lines 139-141, recommends being the dict the maker closed over
recommend_finder(recommends, member) ==
    IF has(member, "legacyCmisId")
    THEN Ok(lookup(recommends, member.legacyCmisId))
    ELSE Raise("KeyError")

\* line 147: lambda i: (r := recommend_finder(i)) and r['endowmentDate']
is_endowed(recommends, i) ==
    Let(recommend_finder(recommends, i), LAMBDA r :
        IF Raised(r) THEN r
        ELSE IF ~(r.value.found /\ DOMAIN r.value.record # {}) THEN Ok(FALSE)
        ELSE IF ~has(r.value.record, "endowmentDate") THEN Raise("KeyError")
        ELSE Ok(truthy(r.value.record.endowmentDate)))

endowed_splitter(recommends, members) ==
    Let(<<recommends, members>>, LAMBDA a :
        partition([x \in Elements(a[2]) |-> is_endowed(a[1], x)], a[2]))

----------------------------------------------------------------------------
(* MemberReport.process_data, common.py:208-281 (main.py:53-126) *)

\* lines 214-218: the age cohorts
is_primary(i) == on_age(i, LAMBDA a : a < 12)
is_youth_from_13(i) == on_age(i, LAMBDA a : 13 <= a /\ a <= 17)
is_youth(i) == on_age(i, LAMBDA a : 12 <= a /\ a <= 17)
is_adult(i) == on_age(i, LAMBDA a : a > 17)

age_cohorts(members) ==
    multi_partition(<<graph(is_primary, members), graph(is_youth, members),
                      graph(is_adult, members)>>, members)

\* lines 236-240: the ages of the primary
is_age_0_to_2(i) == on_age(i, LAMBDA a : a <= 2)
is_age_3_to_7(i) == on_age(i, LAMBDA a : 2 < a /\ a <= 7)
is_age_8_plus(i) == on_age(i, LAMBDA a : a >= 8)

primary_ages(members) ==
    multi_partition(<<graph(is_age_0_to_2, members), graph(is_age_3_to_7, members),
                      graph(is_age_8_plus, members)>>, members)

\* lines 258-259 and 263-265: the priesthood fields
young_men_aaronic(ypg) == Len(ypg.PRIEST) + Len(ypg.TEACHER) + Len(ypg.DEACON)
young_men_unordained(ypg) == Len(ypg.UNORDAINED)
brethren_melchizedek_elders_only(bpg) == Len(bpg.ELDER)
brethren_melchizedek(bpg) == Len(bpg.ELDER) + Len(bpg.HIGH_PRIEST)
brethren_aaronic(bpg) == Len(bpg.PRIEST) + Len(bpg.TEACHER) + Len(bpg.DEACON)
brethren_unordained(bpg) == Len(bpg.UNORDAINED)

\* line 274: f'recommend_{k.lower()}' for the keys of STATUSES, in their order
STATUS_FIELDS ==
    <<"recommend_active", "recommend_canceled",
      "recommend_expired_less_than_1_month",
      "recommend_expired_less_than_3_months",
      "recommend_expired_over_3_months", "recommend_expiring_next_month",
      "recommend_expiring_this_month", "recommend_lost_or_stolen">>

\* line 274: {f'recommend_{k.lower()}': len(v) for k, v in recommend_groups.items()}
recommend_fields(recommend_groups) ==
    [f \in Elements(STATUS_FIELDS) |->
        Len(recommend_groups[STATUSES[CHOOSE n \in 1..Len(STATUS_FIELDS) :
                                         STATUS_FIELDS[n] = f]])]

\* lines 275-281: the aggregates, read back from the recommend_ fields
current_recommend_counts_lost(data) ==
    data.recommend_active + data.recommend_expiring_next_month
        + data.recommend_expiring_this_month + data.recommend_lost_or_stolen
current_recommend(data) ==
    data.recommend_active + data.recommend_expiring_next_month
        + data.recommend_expiring_this_month
expired_recommend(data) ==
    data.recommend_canceled + data.recommend_expired_less_than_1_month
        + data.recommend_expired_less_than_3_months
        + data.recommend_expired_over_3_months

\* main.py:119-125: the aggregates, from the groups themselves
main_current_recommend(recommend_groups) ==
    Len(recommend_groups.ACTIVE) + Len(recommend_groups.EXPIRING_NEXT_MONTH)
        + Len(recommend_groups.EXPIRING_THIS_MONTH)
main_expired_recommend(recommend_groups) ==
    Len(recommend_groups.CANCELED)
        + Len(recommend_groups.EXPIRED_LESS_THAN_1_MONTH)
        + Len(recommend_groups.EXPIRED_LESS_THAN_3_MONTHS)
        + Len(recommend_groups.EXPIRED_OVER_3_MONTHS)

\* lines 251-273: the fields written after households, v being the locals
\* of lines 212-246
counts(v) ==
    [primary |-> Len(v.primary),
     adults |-> Len(v.adults),
     young_women |-> Len(v.young_women),
     sisters |-> Len(v.sisters),
     sisters_with_callings |-> Len(v.sisters_with_callings),
     sisters_no_calling |-> Len(v.sisters_no_calling),
     young_men |-> Len(v.young_men),
     young_men_aaronic |-> young_men_aaronic(v.ypg),
     young_men_unordained |-> young_men_unordained(v.ypg),
     brethren |-> Len(v.brethren),
     brethren_with_callings |-> Len(v.brethren_with_callings),
     brethren_no_calling |-> Len(v.brethren_no_calling),
     brethren_melchizedek |-> brethren_melchizedek(v.bpg),
     brethren_aaronic |-> brethren_aaronic(v.bpg),
     brethren_unordained |-> brethren_unordained(v.bpg),
     age_0_to_2 |-> Len(v.age_0_to_2),
     age_3_to_7 |-> Len(v.age_3_to_7),
     age_8_plus |-> Len(v.age_8_plus),
     single_18 |-> Len(v.single_18),
     single_31 |-> Len(v.single_31),
     single_46 |-> Len(v.single_46),
     endowed |-> Len(v.endowed),
     not_endowed |-> Len(v.not_endowed)]

\* common.py, lines 274-281: the recommend_ fields, then the aggregates read
\* back from them
common_aggregates(data, recommend_groups) ==
    Let(recommend_fields(recommend_groups) @@ data, LAMBDA d274 :
        [current_recommend |-> current_recommend(d274),
         expired_recommend |-> expired_recommend(d274)] @@ d274)

\* main.py, lines 119-126: the aggregates from the groups, then the
\* recommend_ fields
main_aggregates(data, recommend_groups) ==
    recommend_fields(recommend_groups)
        @@ [current_recommend |-> main_current_recommend(recommend_groups),
            expired_recommend |-> main_expired_recommend(recommend_groups)]
        @@ data

\* lines 248-281: the writes to self.data.  The result is the exception
\* raised, if any, and self.data as the writes leave it.
data_writes(self, module, v) ==
    Let([members |-> Len(v.members), non_members |-> Len(v.non_members)]
            @@ self.data, LAMBDA d249 :
        Let(household_grouper(self.member_list), LAMBDA households :
            IF Raised(households)
            THEN [raised |-> households.raised, data |-> d249]
            ELSE Let(counts(v)
                        @@ [households |-> Cardinality(DOMAIN households.value)]
                        @@ d249, LAMBDA d273 :
                   [raised |-> "None",
                    data |-> IF module = "main"
                             THEN main_aggregates(d273, v.recommend_groups)
                             ELSE common_aggregates(d273, v.recommend_groups)])))

\* r is the result of a call: its exception leaves the function, or the
\* function goes on with its value
Then(r, Body(_)) == Let(r, LAMBDA x : IF Raised(x) THEN x ELSE Body(x.value))

\* lines 212-246: the locals of process_data, or the first exception
classify_members(self) ==
    Then(member_splitter(self.member_list), LAMBDA s212 :
    Then(age_cohorts(self.member_list), LAMBDA s219 :
    Then(male_splitter(s219[2]), LAMBDA s220 :
    Then(male_splitter(s219[3]), LAMBDA s222 :
    Then(calling_splitter(self.calling_finder, s222[1]), LAMBDA s223 :
    Then(calling_splitter(self.calling_finder, s222[2]), LAMBDA s224 :
    Then(priesthood_grouper(s222[1]), LAMBDA bpg :
    Then(priesthood_grouper(s220[1]), LAMBDA ypg :
    Then(primary_ages(s219[1]), LAMBDA s241 :
    Then(singles_by_age(s212[1]), LAMBDA s243 :
    Then(endowed_splitter(self.recommend_finder, s219[3]), LAMBDA s245 :
    Then(recommend_status_grouper(self.recommend_status), LAMBDA recommend_groups :
        Ok([members |-> s212[1], non_members |-> s212[2],
            primary |-> s219[1], young_people |-> s219[2], adults |-> s219[3],
            young_men |-> s220[1], young_women |-> s220[2],
            brethren |-> s222[1], sisters |-> s222[2],
            brethren_with_callings |-> s223[1], brethren_no_calling |-> s223[2],
            sisters_with_callings |-> s224[1], sisters_no_calling |-> s224[2],
            bpg |-> bpg, ypg |-> ypg,
            age_0_to_2 |-> s241[1], age_3_to_7 |-> s241[2],
            age_8_plus |-> s241[3],
            single_18 |-> s243[1], single_31 |-> s243[2], single_46 |-> s243[3],
            endowed |-> s245[1], not_endowed |-> s245[2],
            recommend_groups |-> recommend_groups])))))))))))))

\* The result is the exception raised, if any, and self.data as the call
\* leaves it.  module tells the two copies of the class apart: "common" is
\* wardreport/common.py, "main" is main.py.
process_data(self, module) ==
    Let(classify_members(self), LAMBDA v :
        IF Raised(v) THEN [raised |-> v.raised, data |-> self.data]
        ELSE data_writes(self, module, v.value))

----------------------------------------------------------------------------
(* MemberReport.__init__, common.py:198-206 *)

\* lines 199-201: the attributes are the three collections themselves
attributes(member_list, callings, recommend_status) ==
    [member_list |-> member_list, callings |-> callings,
     recommend_status |-> recommend_status]

\* The result is the exception raised, if any, and the attributes the
\* constructor has set on the object.
MemberReport(module, member_list, callings, recommend_status) ==
    Let(attributes(member_list, callings, recommend_status), LAMBDA s201 :
      Let(recommend_finder_maker(s201.recommend_status), LAMBDA s202 :
        IF Raised(s202) THEN [raised |-> s202.raised, self |-> s201]
        ELSE Let([recommend_finder |-> s202.value] @@ s201, LAMBDA a202 :
          Let(callings_by_member_id(a202.callings), LAMBDA s203 :
            IF Raised(s203) THEN [raised |-> s203.raised, self |-> a202]
            ELSE Let([calling_finder |-> s203.value, data |-> Empty] @@ a202,
                     LAMBDA a205 :
                   Let(process_data(a205, module), LAMBDA s206 :
                       [raised |-> s206.raised,
                        self |-> [a205 EXCEPT !.data = s206.data]]))))))

----------------------------------------------------------------------------
(* MemberReport.print_report, common.py:286-344 (main.py:131-189) *)

\* The values the template interpolates, in the order of the template; the
\* fixed text and the date are left out.  A field is read as self.<field>,
\* that is self.data[<field>] (__getattr__, line 283).
interpolated(d) ==
    <<Ok(str(d.members)), Ok(str(d.non_members)),
      Ok(str(d.brethren)), Ok(str(d.sisters)), Ok(str(d.adults)),
      Ok(str(d.young_men)), Ok(str(d.young_women)),
      Ok(str(d.primary)),
      Ok(str(d.age_0_to_2)), Ok(str(d.age_3_to_7)), Ok(str(d.age_8_plus)),
      percent_str(d.age_0_to_2, d.primary),
      percent_str(d.age_3_to_7, d.primary),
      percent_str(d.age_8_plus, d.primary),
      Ok(str(d.brethren_with_callings)),
      percent_str(d.brethren_with_callings, d.brethren),
      Ok(str(d.sisters_with_callings)),
      percent_str(d.sisters_with_callings, d.sisters),
      Ok(str(d.brethren_melchizedek)),
      percent_str(d.brethren_melchizedek, d.brethren),
      Ok(str(d.brethren_aaronic)),
      percent_str(d.brethren_aaronic, d.brethren),
      Ok(str(d.brethren_unordained)),
      percent_str(d.brethren_unordained, d.brethren),
      Ok(str(d.young_men_aaronic)),
      percent_str(d.young_men_aaronic, d.young_men),
      Ok(str(d.young_men_unordained)),
      percent_str(d.young_men_unordained, d.young_men),
      Ok(str(d.single_18)), Ok(str(d.single_31)), Ok(str(d.single_46)),
      Ok(str(d.single_18 + d.single_31 + d.single_46)),
      Ok(str(d.endowed)), percent_str(d.endowed, d.adults),
      Ok(str(d.not_endowed)), percent_str(d.not_endowed, d.adults),
      Ok(str(d.current_recommend)),
      percent_str(d.current_recommend, d.endowed),
      Ok(str(d.expired_recommend)),
      percent_str(d.expired_recommend, d.endowed),
      Ok(str(d.recommend_expiring_this_month)),
      Ok(str(d.recommend_expiring_next_month)),
      Ok(str(d.recommend_lost_or_stolen))>>

\* The text printed, or the exception of the first interpolation that raises
print_report(self) ==
    Let(interpolated(self.data), LAMBDA pieces :
        Let({n \in 1..Len(pieces) : Raised(pieces[n])}, LAMBDA bad :
            IF bad # {} THEN pieces[CHOOSE n \in bad : \A m \in bad : n <= m]
            ELSE Ok([n \in 1..Len(pieces) |-> pieces[n].value])))

----------------------------------------------------------------------------
(* The report run, main.py:198-199: a MemberReport is built from the three *)
(* collections and then printed.                                           *)

MaxRoster == 2    \* most members added to the fixed part of a roster

\* d without key
without(d, key) == [k \in DOMAIN d \ {key} |-> d[k]]

\* a ward of four: a brother, a sister, a young man and a child
Brother ==
    [age |-> 40, sex |-> "M", isMember |-> TRUE, legacyCmisId |-> 1,
     priesthoodOffice |-> "ELDER", isSingleAdult |-> FALSE,
     isYoungSingleAdult |-> FALSE, householdAnchorPersonUuid |-> 1]
Sister ==
    [Brother EXCEPT !.age = 38, !.sex = "F", !.legacyCmisId = 2,
                    !.priesthoodOffice = None]
YoungMan ==
    [Brother EXCEPT !.age = 15, !.legacyCmisId = 3,
                    !.priesthoodOffice = "TEACHER"]
Child ==
    [Sister EXCEPT !.age = 5, !.legacyCmisId = 4]
Ward == <<Brother, Sister, YoungMan, Child>>

\* the fixed part of a roster: nobody, or the ward of four
Prefixes == {<<>>, Ward}

\* the brother holds a calling and a recommend
WardCallings == <<[children |-> <<[callings |-> <<[memberId |-> 1]>>]>>]>>
WardRecommends ==
    <<[id |-> 1, recommendStatus |-> "ACTIVE", endowmentDate |-> "2001-01-01"]>>

\* members that differ in age cohort, sex and priesthood office, the office
\* being one of the six, an unknown string, None, or missing
PriesthoodMembers ==
    LET m == {[Brother EXCEPT !.age = a, !.sex = s, !.priesthoodOffice = o,
                              !.legacyCmisId = 5] :
                 a \in {15, 30}, s \in {"M", "F"}, o \in OfficeValues}
    IN m \cup {without(x, "priesthoodOffice") :
                  x \in {y \in m : y.priesthoodOffice = None}}

\* recommend records of the brother that differ in status, the status being
\* one of the eight, an unknown string, None, or missing
RecommendRecords ==
    LET r == {[id |-> 1, recommendStatus |-> st, endowmentDate |-> "2001-01-01"] :
                 st \in StatusValues \ {""}}
    IN r \cup {without(x, "recommendStatus") :
                  x \in {y \in r : y.recommendStatus = None}}

Init ==
    /\ ret = NotCalled
    /\ member_report = Empty
    /\ out = NotCalled
    /\ TEST_YEAR = NoYear
    /\ heap = Empty
    /\ \/ \E prefix \in Prefixes, extra \in SeqUpTo(PriesthoodMembers, MaxRoster) :
            call = [fn |-> "MemberReport", module |-> "common",
                    member_list |-> prefix \o extra,
                    callings |-> WardCallings,
                    recommend_status |-> WardRecommends]
       \/ \E module \in {"common", "main"}, prefix \in Prefixes,
             recommend_status \in SeqUpTo(RecommendRecords, MaxLen) :
            call = [fn |-> "MemberReport", module |-> module,
                    member_list |-> prefix,
                    callings |-> WardCallings,
                    recommend_status |-> recommend_status]

\* member_report = MemberReport(member_list, callings, recommend_status).
\* The attributes member_list, callings and recommend_status of the object
\* are the caller's collections themselves (lines 199-201), so what the
\* constructor leaves in them is what the caller holds after the call.
Construct ==
    /\ call.fn = "MemberReport"
    /\ Pending(ret)
    /\ \E r \in {MemberReport(call.module, call.member_list, call.callings,
                             call.recommend_status)} :
          /\ member_report' = r.self
          /\ ret' = IF r.raised = "None" THEN Ok(r.self) ELSE Raise(r.raised)
          /\ call' = [call EXCEPT !.member_list = r.self.member_list,
                                  !.callings = r.self.callings,
                                  !.recommend_status = r.self.recommend_status]
    /\ UNCHANGED <<out, TEST_YEAR, heap>>

\* member_report.print_report()
PrintReport ==
    /\ call.fn = "MemberReport"
    /\ Returned(ret)
    /\ Pending(out)
    /\ out' = print_report(member_report)
    /\ UNCHANGED <<call, ret, member_report, TEST_YEAR, heap>>

Next == Construct \/ PrintReport

Spec == Init /\ [][Next]_vars

----------------------------------------------------------------------------
(* Claims about the report *)

\* a report is produced: the constructor has returned
ReportProduced == call.fn = "MemberReport" /\ Returned(ret)

\* the number of records of the raw collection whose status is st
CountStatus(recommend_status, st) ==
    Cardinality({n \in 1..Len(recommend_status) :
                    /\ has(recommend_status[n], "recommendStatus")
                    /\ recommend_status[n].recommendStatus = st})

\* C8: in every report produced by MemberReport, of either copy of the
\* class, each recommend_ field is the number of records of the raw
\* recommend-status collection with that status, current_recommend is
\* recommend_active + recommend_expiring_next_month +
\* recommend_expiring_this_month, and expired_recommend is recommend_canceled
\* + recommend_expired_less_than_1_month +
\* recommend_expired_less_than_3_months + recommend_expired_over_3_months;
\* LOST_OR_STOLEN is in neither sum.
C8_RecommendAggregates ==
    ReportProduced =>
        LET data == ret.value.data
            n(st) == CountStatus(call.recommend_status, st)
        IN /\ \A k \in 1..Len(STATUSES) : data[STATUS_FIELDS[k]] = n(STATUSES[k])
           /\ data.current_recommend =
                 data.recommend_active + data.recommend_expiring_next_month
                     + data.recommend_expiring_this_month
           /\ data.current_recommend =
                 n("ACTIVE") + n("EXPIRING_NEXT_MONTH") + n("EXPIRING_THIS_MONTH")
           /\ data.expired_recommend =
                 data.recommend_canceled
                     + data.recommend_expired_less_than_1_month
                     + data.recommend_expired_less_than_3_months
                     + data.recommend_expired_over_3_months
           /\ data.expired_recommend =
                 n("CANCELED") + n("EXPIRED_LESS_THAN_1_MONTH")
                     + n("EXPIRED_LESS_THAN_3_MONTHS")
                     + n("EXPIRED_OVER_3_MONTHS")

\* a report over a current, an expired and a lost recommend
C8_Witness ==
    /\ ReportProduced
    /\ CountStatus(call.recommend_status, "EXPIRING_THIS_MONTH") = 1
    /\ CountStatus(call.recommend_status, "EXPIRED_OVER_3_MONTHS") = 1
    /\ CountStatus(call.recommend_status, "LOST_OR_STOLEN") = 1
    /\ ret.value.data.current_recommend = 1
    /\ ret.value.data.expired_recommend = 1

\* the same, of the copy of the class in main.py
C8_WitnessMain == C8_Witness /\ call.module = "main"

\* the adult men of a roster
AdultMen(member_list) ==
    {n \in 1..Len(member_list) :
        member_list[n].age > 17 /\ member_list[n].sex = "M"}

\* C10: in every report produced by MemberReport, for every roster,
\* brethren_aaronic + brethren_melchizedek + brethren_unordained = brethren,
\* brethren being the number of adult men of the roster.
C10_BrethrenPartition ==
    ReportProduced =>
        LET data == ret.value.data
        IN /\ data.brethren_aaronic + data.brethren_melchizedek
                 + data.brethren_unordained = data.brethren
           /\ data.brethren = Cardinality(AdultMen(call.member_list))

\* a report over an elder, a high priest and a brother of an unknown office
C10_Witness ==
    /\ ReportProduced
    /\ \E i, j \in AdultMen(call.member_list) :
          /\ call.member_list[i].priesthoodOffice = "HIGH_PRIEST"
          /\ call.member_list[j].priesthoodOffice = "BISHOP"
    /\ ret.value.data.brethren = 3
    /\ ret.value.data.brethren_melchizedek = 2
    /\ ret.value.data.brethren_unordained = 1

\* a report whose adult men hold Aaronic offices
C10_WitnessAaronic ==
    /\ ReportProduced
    /\ ret.value.data.brethren = 2
    /\ ret.value.data.brethren_aaronic = 2

\* what becomes of C9 in a report run: printing the report of an empty
\* roster raises ZeroDivisionError
C9_EmptyRosterReportRaises ==
    (ReportProduced /\ call.member_list = <<>> /\ ~Pending(out))
        => Raises(out, "ZeroDivisionError")

----------------------------------------------------------------------------
(* Report runs over rosters that differ in age, sex and membership *)

\* the ages on both sides of every boundary of lines 214-218 and 236-240
CohortAges == {2, 3, 7, 8, 11, 12, 17, 18}

CohortMembers ==
    {[Brother EXCEPT !.age = a, !.sex = s, !.isMember = m, !.legacyCmisId = 5] :
        a \in CohortAges, s \in {"M", "F"}, m \in BOOLEAN}

InitCohorts ==
    /\ ret = NotCalled
    /\ member_report = Empty
    /\ out = NotCalled
    /\ TEST_YEAR = NoYear
    /\ heap = Empty
    /\ \E prefix \in Prefixes, extra \in SeqUpTo(CohortMembers, MaxRoster) :
         call = [fn |-> "MemberReport", module |-> "common",
                 member_list |-> prefix \o extra,
                 callings |-> WardCallings,
                 recommend_status |-> WardRecommends]

SpecCohorts == InitCohorts /\ [][Next]_vars

\* the constructor has returned or raised
ReportRun == call.fn = "MemberReport" /\ ~Pending(ret)

\* the number of records of the roster that satisfy P
Counted(member_list, P(_)) ==
    Cardinality({n \in 1..Len(member_list) : P(member_list[n])})

\* C11: for every roster whose records all carry an integer age, the run
\* never raises the unclassified-item error (ValueError), and in the report
\* each record is counted in exactly one of primary (age < 12), young_men
\* and young_women (12 <= age <= 17, by sex), brethren and sisters (age >
\* 17, by sex): the five counts sum to the roster length and brethren +
\* sisters = adults.
C11_AgeSexCohorts ==
    ReportRun =>
        /\ ~Raises(ret, "ValueError")
        /\ Returned(ret) =>
              LET data == ret.value.data
                  roster == call.member_list
              IN /\ data.primary = Counted(roster, LAMBDA i : i.age < 12)
                 /\ data.young_men = Counted(roster, LAMBDA i :
                        12 <= i.age /\ i.age <= 17 /\ i.sex = "M")
                 /\ data.young_women = Counted(roster, LAMBDA i :
                        12 <= i.age /\ i.age <= 17 /\ i.sex # "M")
                 /\ data.brethren = Counted(roster, LAMBDA i :
                        i.age > 17 /\ i.sex = "M")
                 /\ data.sisters = Counted(roster, LAMBDA i :
                        i.age > 17 /\ i.sex # "M")
                 /\ data.primary + data.young_men + data.young_women
                        + data.brethren + data.sisters = Len(roster)
                 /\ data.brethren + data.sisters = data.adults

\* a report over all five cohorts, with records aged 11, 12, 17 and 18
C11_Witness ==
    /\ call.fn = "MemberReport"
    /\ Returned(ret)
    /\ \E i, j \in 1..Len(call.member_list) :
          /\ call.member_list[i].age = 12 /\ call.member_list[i].sex = "F"
          /\ call.member_list[j].age = 17 /\ call.member_list[j].sex = "M"
    /\ ret.value.data.primary = 1
    /\ ret.value.data.young_men = 2
    /\ ret.value.data.young_women = 1
    /\ ret.value.data.brethren = 1
    /\ ret.value.data.sisters = 1

\* a report over a child of 11 and an adult of 18
C11_WitnessBoundaries ==
    /\ call.fn = "MemberReport"
    /\ Returned(ret)
    /\ Len(call.member_list) = 2
    /\ call.member_list[1].age = 11
    /\ call.member_list[2].age = 18
    /\ ret.value.data.primary = 1
    /\ ret.value.data.adults = 1

\* C12: the membership split puts a record in the member group iff its
\* isMember flag is true and in the non-member group otherwise; in every
\* report members + non_members is the roster length.
C12_MembershipSplit ==
    (call.fn = "MemberReport" /\ Returned(ret)) =>
        LET data == ret.value.data
            roster == call.member_list
        IN /\ data.members = Counted(roster, LAMBDA i : i.isMember = TRUE)
           /\ data.non_members = Counted(roster, LAMBDA i : i.isMember # TRUE)
           /\ data.members + data.non_members = Len(roster)

\* a report over four members and two non-members
C12_Witness ==
    /\ call.fn = "MemberReport"
    /\ Returned(ret)
    /\ Len(call.member_list) = 6
    /\ ~call.member_list[5].isMember
    /\ ~call.member_list[6].isMember
    /\ ret.value.data.members = 4
    /\ ret.value.data.non_members = 2

----------------------------------------------------------------------------
(* Report runs over calling collections of different shapes *)

MaxCallings == 2    \* most calling records of a collection

\* calling records of the brother (1), of the sister (2) and of somebody who
\* is not on the roster (9)
CallingRecords ==
    {[memberId |-> id, position |-> p] :
        id \in {1, 2, 9}, p \in {"Bishop", "Clerk"}}

\* the records in one sub-group, in a sub-group each, or in a group each
Shapes == {"one sub-group", "a sub-group each", "a group each"}

nest(shape, records) ==
    IF shape = "one sub-group"
    THEN <<[children |-> <<[callings |-> records]>>]>>
    ELSE IF shape = "a sub-group each"
    THEN <<[children |-> [k \in 1..Len(records) |-> [callings |-> <<records[k]>>]]]>>
    ELSE [k \in 1..Len(records) |-> [children |-> <<[callings |-> <<records[k]>>]>>]]

\* an adult who is on no calling record, or shares the id of one who may be
CallingMembers ==
    {[Brother EXCEPT !.sex = s, !.legacyCmisId = id] :
        s \in {"M", "F"}, id \in {1, 2, 5}}

CallingRosters == {<<>>, Ward} \cup {Ward \o <<m>> : m \in CallingMembers}

InitCallings ==
    /\ ret = NotCalled
    /\ member_report = Empty
    /\ out = NotCalled
    /\ TEST_YEAR = NoYear
    /\ heap = Empty
    /\ \E member_list \in CallingRosters, shape \in Shapes,
          records \in SeqUpTo(CallingRecords, MaxCallings) :
         call = [fn |-> "MemberReport", module |-> "common",
                 member_list |-> member_list,
                 callings |-> nest(shape, records),
                 recommend_status |-> WardRecommends]

SpecCallings == InitCallings /\ [][Next]_vars

\* the member ids of the calling records of a collection
CalledIds(callings) ==
    {callings[g].children[c].callings[k].memberId :
        <<g, c, k>> \in {t \in (DOMAIN callings) \X (0..MaxCallings + 1)
                                  \X (0..MaxCallings + 1) :
                            /\ t[2] \in DOMAIN callings[t[1]].children
                            /\ t[3] \in DOMAIN callings[t[1]].children[t[2]].callings}}

\* C13: a member is classified 'with calling' iff some calling record of the
\* collection (groups[*].children[*].callings[*]) carries the member's
\* legacy identifier as memberId, and 'without calling' otherwise; a member
\* whose identifier is on no record is classified without error; with +
\* without is the size of the population split, for the brethren and for the
\* sisters of every report.
C13_CallingSplit ==
    ReportRun =>
        /\ Returned(ret)
        /\ LET data == ret.value.data
               roster == call.member_list
               called == CalledIds(call.callings)
           IN /\ data.brethren_with_callings = Counted(roster, LAMBDA i :
                     i.age > 17 /\ i.sex = "M" /\ i.legacyCmisId \in called)
              /\ data.brethren_no_calling = Counted(roster, LAMBDA i :
                     i.age > 17 /\ i.sex = "M" /\ i.legacyCmisId \notin called)
              /\ data.sisters_with_callings = Counted(roster, LAMBDA i :
                     i.age > 17 /\ i.sex # "M" /\ i.legacyCmisId \in called)
              /\ data.sisters_no_calling = Counted(roster, LAMBDA i :
                     i.age > 17 /\ i.sex # "M" /\ i.legacyCmisId \notin called)
              /\ data.brethren_with_callings + data.brethren_no_calling
                     = data.brethren
              /\ data.sisters_with_callings + data.sisters_no_calling
                     = data.sisters

\* a report where the sister is on the second record of a sub-group, the
\* brother on none, and a second brother, not in the lookup, is without
C13_Witness ==
    /\ call.fn = "MemberReport"
    /\ Returned(ret)
    /\ Len(call.member_list) = 5
    /\ call.member_list[5].legacyCmisId = 5
    /\ call.member_list[5].sex = "M"
    /\ Len(call.callings) = 1
    /\ Len(call.callings[1].children) = 1
    /\ Len(call.callings[1].children[1].callings) = 2
    /\ call.callings[1].children[1].callings[1].memberId = 9
    /\ call.callings[1].children[1].callings[2].memberId = 2
    /\ ret.value.data.brethren_with_callings = 0
    /\ ret.value.data.brethren_no_calling = 2
    /\ ret.value.data.sisters_with_callings = 1
    /\ ret.value.data.sisters_no_calling = 0

\* a report where the callings are in two groups
C13_WitnessGroups ==
    /\ call.fn = "MemberReport"
    /\ Returned(ret)
    /\ Len(call.callings) = 2
    /\ ret.value.data.brethren_with_callings = 1
    /\ ret.value.data.sisters_with_callings = 1

----------------------------------------------------------------------------
(* Report runs over recommend records that differ in endowment date *)

\* recommend records of the brother and of the sister; the endowment date is
\* a date, None, empty, or missing
EndowmentRecords ==
    LET r == {[id |-> id, recommendStatus |-> "ACTIVE", endowmentDate |-> date] :
                 id \in {1, 2}, date \in {"2001-01-01", None, ""}}
    IN r \cup {without(x, "endowmentDate") :
                  x \in {y \in r : y.endowmentDate = None}}

InitEndowed ==
    /\ ret = NotCalled
    /\ member_report = Empty
    /\ out = NotCalled
    /\ TEST_YEAR = NoYear
    /\ heap = Empty
    /\ \E member_list \in CallingRosters,
          recommend_status \in SeqUpTo(EndowmentRecords, MaxLen) :
         call = [fn |-> "MemberReport", module |-> "common",
                 member_list |-> member_list,
                 callings |-> WardCallings,
                 recommend_status |-> recommend_status]

SpecEndowed == InitEndowed /\ [][Next]_vars

\* the record the recommend lookup holds for an id: the last one of the
\* collection with that id
LastRecord(recommend_status, id) ==
    recommend_status[CHOOSE n \in 1..Len(recommend_status) :
        /\ recommend_status[n].id = id
        /\ \A m \in n + 1..Len(recommend_status) : recommend_status[m].id # id]

HasRecord(recommend_status, id) ==
    \E n \in 1..Len(recommend_status) : recommend_status[n].id = id

\* the member is an adult whose record in the lookup has a non-empty
\* endowment date
EndowedAdult(recommend_status, i) ==
    /\ i.age > 17
    /\ HasRecord(recommend_status, i.legacyCmisId)
    /\ LET r == LastRecord(recommend_status, i.legacyCmisId)
       IN has(r, "endowmentDate") /\ truthy(r.endowmentDate)

\* an adult of the roster has a record in the lookup that lacks the
\* endowment date
AdultRecordLacksDate ==
    \E n \in 1..Len(call.member_list) :
        /\ call.member_list[n].age > 17
        /\ HasRecord(call.recommend_status, call.member_list[n].legacyCmisId)
        /\ ~has(LastRecord(call.recommend_status,
                           call.member_list[n].legacyCmisId), "endowmentDate")

\* what C14 says of a run
EndowedSplit ==
    /\ Returned(ret)
    /\ LET data == ret.value.data
           roster == call.member_list
       IN /\ data.endowed = Counted(roster, LAMBDA i :
                 EndowedAdult(call.recommend_status, i))
          /\ data.not_endowed = Counted(roster, LAMBDA i :
                 i.age > 17 /\ ~EndowedAdult(call.recommend_status, i))
          /\ data.endowed + data.not_endowed = data.adults

\* C14: a member is classified endowed iff the recommend lookup holds a
\* record for the member's legacy identifier and that record has a non-empty
\* endowment date; a member with no record, or with a record whose endowment
\* date is absent, is classified not-endowed without error; endowed +
\* not_endowed = adults in the report.
C14_EndowedSplit == ReportRun => EndowedSplit

\* what holds: the split is as C14 says when the records of the adults
\* carry the endowmentDate key, its value a date, None or empty
C14_SplitWhenKeyPresent == (ReportRun /\ ~AdultRecordLacksDate) => EndowedSplit

\* what holds: a record of an adult without the endowmentDate key fails the
\* run with KeyError
C14_RaisesOnMissingDate ==
    (ReportRun /\ AdultRecordLacksDate) => Raises(ret, "KeyError")

----------------------------------------------------------------------------
(* Report runs over rosters that differ in the single flags *)

\* ages below 18 and on both sides of the boundaries of lines 82-84
SingleAges == {15, 17, 18, 30, 31, 45, 46}

SingleMembers ==
    {[Brother EXCEPT !.age = a, !.isMember = m, !.isSingleAdult = s,
                     !.isYoungSingleAdult = y, !.legacyCmisId = 5,
                     !.priesthoodOffice = "PRIEST"] :
        a \in SingleAges, m \in BOOLEAN, s \in BOOLEAN, y \in BOOLEAN}

InitSingles ==
    /\ ret = NotCalled
    /\ member_report = Empty
    /\ out = NotCalled
    /\ TEST_YEAR = NoYear
    /\ heap = Empty
    /\ \E prefix \in Prefixes, extra \in SeqUpTo(SingleMembers, MaxRoster) :
         call = [fn |-> "MemberReport", module |-> "common",
                 member_list |-> prefix \o extra,
                 callings |-> WardCallings,
                 recommend_status |-> WardRecommends]

SpecSingles == InitSingles /\ [][Next]_vars

\* the record is of a member flagged single
FlaggedSingle(i) == i.isMember = TRUE /\ (i.isSingleAdult \/ i.isYoungSingleAdult)

\* C15: for every roster processed by MemberReport, the population handed
\* to the four-bucket age partition is adult-filtered: its catch-all bucket
\* is empty, that is no member flagged single is under 18, and single_18 +
\* single_31 + single_46 is the number of members flagged single.
C15_SinglesAreAdults ==
    (call.fn = "MemberReport" /\ Returned(ret)) =>
        LET data == ret.value.data
            roster == call.member_list
        IN /\ single_age_partition(
                  single_splitter(member_splitter(roster).value[1]).value[1]
              ).value[4] = <<>>
           /\ data.single_18 + data.single_31 + data.single_46
                 = Counted(roster, FlaggedSingle)

\* what holds: the three fields count the members flagged single who are 18
\* to 30, 31 to 45, and 46 or over; a younger one is in none of them
C15_SinglesCountedByAge ==
    (call.fn = "MemberReport" /\ Returned(ret)) =>
        LET data == ret.value.data
            roster == call.member_list
        IN /\ data.single_18 = Counted(roster, LAMBDA i :
                 FlaggedSingle(i) /\ 18 <= i.age /\ i.age <= 30)
           /\ data.single_31 = Counted(roster, LAMBDA i :
                 FlaggedSingle(i) /\ 31 <= i.age /\ i.age <= 45)
           /\ data.single_46 = Counted(roster, LAMBDA i :
                 FlaggedSingle(i) /\ 46 <= i.age)

\* what holds: a report is produced for a roster with a member under 18
\* flagged single, and the member is in none of the three fields
C15_YoungSingleIsDropped ==
    (ReportRun /\ Len(call.member_list) = 1 /\ FlaggedSingle(call.member_list[1])
        /\ call.member_list[1].age < 18)
    => /\ Returned(ret)
       /\ ret.value.data.single_18 + ret.value.data.single_31
             + ret.value.data.single_46 = 0

----------------------------------------------------------------------------
(* Report runs over rosters with a record that lacks a field *)

\* the fields a record may lack
OptionalKeys == {"age", "sex", "legacyCmisId", "householdAnchorPersonUuid"}

\* a child, a youth or an adult, of either sex, member or not, without one
\* of the fields
LackingMembers ==
    {without([Brother EXCEPT !.age = a, !.sex = s, !.isMember = m,
                             !.legacyCmisId = 5], key) :
        a \in {5, 15, 40}, s \in {"M", "F"}, m \in BOOLEAN, key \in OptionalKeys}

InitLacking ==
    /\ ret = NotCalled
    /\ member_report = Empty
    /\ out = NotCalled
    /\ TEST_YEAR = NoYear
    /\ heap = Empty
    /\ \E prefix \in Prefixes, extra \in SeqUpTo(LackingMembers, MaxRoster) :
         call = [fn |-> "MemberReport", module |-> "common",
                 member_list |-> prefix \o extra,
                 callings |-> WardCallings,
                 recommend_status |-> WardRecommends]

SpecLacking == InitLacking /\ [][Next]_vars

\* some record of the roster satisfies P
Some(member_list, P(_)) == \E n \in 1..Len(member_list) : P(member_list[n])

\* the record lacks the age, the sex or the legacy identifier
LacksRequired(i) ==
    ~has(i, "age") \/ ~has(i, "sex") \/ ~has(i, "legacyCmisId")

\* the record lacks a field that process_data reads of it: the age of any
\* record, the sex of a record aged 12 or more, the legacy identifier of a
\* record aged over 17, the household of any record
LacksFieldRead(i) ==
    \/ ~has(i, "age")
    \/ ~has(i, "householdAnchorPersonUuid")
    \/ has(i, "age") /\ i.age >= 12 /\ ~has(i, "sex")
    \/ has(i, "age") /\ i.age > 17 /\ ~has(i, "legacyCmisId")

\* C16: any roster containing a record that lacks the age, the sex or the
\* legacy identifier makes the run fail, whatever the record's age cohort,
\* sex or membership flag: no report is produced.
C16_MissingFieldFailsRun ==
    (ReportRun /\ Some(call.member_list, LacksRequired)) => Raised(ret)

\* what holds: the run fails with KeyError exactly when a record lacks a
\* field that is read of it; a child without sex or identifier, a youth
\* without identifier, is counted
C16_FailsIffFieldIsRead ==
    ReportRun =>
        IF Some(call.member_list, LacksFieldRead)
        THEN Raises(ret, "KeyError") ELSE Returned(ret)

\* what holds: a report is produced for the ward and a child without sex
C16_ChildWithoutSexIsCounted ==
    (ReportRun /\ Len(call.member_list) = 5
        /\ has(call.member_list[5], "age") /\ call.member_list[5].age < 12
        /\ ~has(call.member_list[5], "sex"))
    => Returned(ret) /\ ret.value.data.primary = 2

----------------------------------------------------------------------------
(* The current-year override, common.py:13-24 (test_year, test_lib.py:8-15) *)

REAL_YEAR == 2026    \* line 14: datetime.now().year when the module is loaded

\* line 19: TEST_YEAR or REAL_YEAR, test_year being the global
get_current_year(test_year) ==
    IF test_year # NoYear /\ test_year[1] # 0 THEN test_year[1] ELSE REAL_YEAR

\* line 24: TEST_YEAR = year
set_test_year(year) == Year(year)

MaxCalls == 3    \* most calls of set_test_year in a run

\* the years passed to set_test_year
Years == {0 - 1, 0, 1900, REAL_YEAR}

\* call.years is the years passed to set_test_year so far
InitYear ==
    /\ call = [fn |-> "import", years |-> <<>>]
    /\ ret = NotCalled
    /\ member_report = Empty
    /\ out = NotCalled
    /\ TEST_YEAR = NoYear
    /\ heap = Empty

SetTestYear ==
    /\ call.fn \in {"import", "set_test_year", "get_current_year"}
    /\ Len(call.years) < MaxCalls
    /\ \E year \in Years :
         /\ TEST_YEAR' = set_test_year(year)
         /\ call' = [fn |-> "set_test_year", years |-> Append(call.years, year)]
    /\ ret' = Ok(None)
    /\ UNCHANGED <<member_report, out, heap>>

GetCurrentYear ==
    /\ call.fn \in {"import", "set_test_year", "get_current_year"}
    /\ ret' = Ok(get_current_year(TEST_YEAR))
    /\ call' = [call EXCEPT !.fn = "get_current_year"]
    /\ UNCHANGED <<member_report, out, TEST_YEAR, heap>>

NextYear == SetTestYear \/ GetCurrentYear

SpecYear == InitYear /\ [][NextYear]_vars

\* get_current_year has just returned
YearRead == call.fn = "get_current_year"

\* C17: before any override get_current_year() returns the real calendar
\* year, and after any sequence of set_test_year calls it returns the year
\* passed to the most recent call, for every integer year.
C17_LastWriteRegister ==
    YearRead =>
        IF call.years = <<>> THEN ret.value = REAL_YEAR
        ELSE ret.value = call.years[Len(call.years)]

\* what holds: the most recent year is returned unless it is 0, and the
\* real year is returned when it is 0 or when there was no override
C17_LastNonZeroWrite ==
    YearRead =>
        IF call.years # <<>> /\ call.years[Len(call.years)] # 0
        THEN ret.value = call.years[Len(call.years)]
        ELSE ret.value = REAL_YEAR

\* the case of test_year: the year read after set_test_year(1900) is 1900
C17_TestYear ==
    (YearRead /\ call.years = <<1900>>) => ret.value = 1900

----------------------------------------------------------------------------
(* Claims about the youth priesthood fields, the data mapping and the inputs *)

\* C18: in every report produced by MemberReport, young_men_aaronic +
\* young_men_unordained = young_men, for every roster, including rosters
\* where a male aged 12 to 17 holds the office ELDER or HIGH_PRIEST.
C18_YoungMenPartition ==
    ReportProduced =>
        ret.value.data.young_men_aaronic + ret.value.data.young_men_unordained
            = ret.value.data.young_men

\* the record is of a young man who holds a Melchizedek office
YoungElder(i) ==
    /\ 12 <= i.age /\ i.age <= 17 /\ i.sex = "M"
    /\ i.priesthoodOffice \in {"ELDER", "HIGH_PRIEST"}

\* what holds: the two fields fall short of young_men by the young men who
\* hold the office ELDER or HIGH_PRIEST
C18_YoungEldersAreLeftOut ==
    ReportProduced =>
        ret.value.data.young_men_aaronic + ret.value.data.young_men_unordained
            + Counted(call.member_list, YoungElder)
            = ret.value.data.young_men

\* the 36 fields of a report: 26 cohort counts, 8 recommend_<status> counts
\* and the two aggregates
ReportFields ==
    {"members", "non_members", "households", "primary", "adults",
     "young_women", "sisters", "sisters_with_callings", "sisters_no_calling",
     "young_men", "young_men_aaronic", "young_men_unordained", "brethren",
     "brethren_with_callings", "brethren_no_calling", "brethren_melchizedek",
     "brethren_aaronic", "brethren_unordained", "age_0_to_2", "age_3_to_7",
     "age_8_plus", "single_18", "single_31", "single_46", "endowed",
     "not_endowed"}
    \cup Elements(STATUS_FIELDS)
    \cup {"current_recommend", "expired_recommend"}

\* the data mapping holds the complete set of fields, each a natural number
Complete(data) ==
    /\ DOMAIN data = ReportFields
    /\ Cardinality(ReportFields) = 36
    /\ \A f \in ReportFields : data[f] \in Nat

\* the constructor has created the data mapping (line 205)
HasData == call.fn = "MemberReport" /\ has(member_report, "data")

\* C19: at every point the report's data mapping is either empty or holds
\* the complete set of 36 fields, each a non-negative integer; if the
\* constructor raises, no field has been written and no MemberReport is
\* returned.
C19_AllOrNothing ==
    HasData =>
        /\ DOMAIN member_report.data = {} \/ Complete(member_report.data)
        /\ Raised(ret) => DOMAIN member_report.data = {}

\* what holds: the mapping of a report that is returned is complete; when
\* the constructor raises, the mapping is empty, or it holds members and
\* non_members alone and a record of the roster lacks the household
C19_PartialAtHouseholds ==
    HasData =>
        IF Returned(ret) THEN Complete(member_report.data)
        ELSE \/ DOMAIN member_report.data = {}
             \/ /\ DOMAIN member_report.data = {"members", "non_members"}
                /\ Some(call.member_list, LAMBDA i :
                        ~has(i, "householdAnchorPersonUuid"))

\* what holds: a record without the household, in a roster that passes the
\* classification, leaves members and non_members written
C19_HouseholdRaisesAfterTwoWrites ==
    (HasData /\ Len(call.member_list) = 1
        /\ ~has(call.member_list[1], "householdAnchorPersonUuid"))
    => /\ Raises(ret, "KeyError")
       /\ DOMAIN member_report.data = {"members", "non_members"}

----------------------------------------------------------------------------
(* Objects and references.  The caller keeps the three collections and the *)
(* constructor is given references to them.  heap[a] is the object at the  *)
(* address a: a list is the sequence of the addresses of its items, a dict *)
(* or an object maps its keys or attributes to scalars or to addresses.    *)

\* list(), dict(), [] and {}: a new object, at the address after the last
allocate(h, object) == Append(h, object)
newest(h) == Len(h)

\* o.append(item); d[key] = v and o.attribute = v
list_append(h, a, item) == [h EXCEPT ![a] = add(@, item)]
setitem(h, a, key, v) == [h EXCEPT ![a] = store(@, key, v)]

\* d.pop(key, None): the value of the key, which is taken out of the dict
dict_pop(h, a, key) ==
    [h |-> [h EXCEPT ![a] = without(@, key)], value |-> get(h[a], key)]
\* d.get(key): the value of the key, the dict being read only
dict_get(h, a, key) == [h |-> h, value |-> get(h[a], key)]

\* a point of a run: the heap, the exception raised if any, and the value of
\* the call that ended there
At(h, v) == [h |-> h, raised |-> "None", value |-> v]
Fails(h, e) == [h |-> h, raised |-> e, value |-> <<>>]

\* the run goes on from the point s, unless an exception was raised there
Go(s, Body(_)) == Let(s, LAMBDA x : IF x.raised # "None" THEN x ELSE Body(x))

\* the graph of a lambda over the items of a list object
graph_at(h, P(_), list) == [a \in Elements(h[list]) |-> P(h[a])]

\* the dict a finder closed over, as the finder reads it: key to record
closed_over(h, d) == [key \in DOMAIN h[d] |-> h[h[d][key]]]

----------------------------------------------------------------------------
(* The functions of common.py on the heap: what each statement allocates   *)
(* and which object it writes                                              *)

\* lines 52-53: list(filter(...)) and list(filterfalse(...)) are two new
\* lists of the items of the iterable
partition_at(h0, pred, iterable) ==
    Let(<<h0, partition(pred, h0[iterable])>>, LAMBDA a :
        IF Raised(a[2]) THEN Fails(a[1], a[2].raised)
        ELSE Let(allocate(allocate(a[1], a[2].value[1]), a[2].value[2]),
                 LAMBDA h53 : At(h53, <<newest(h53) - 1, newest(h53)>>)))

\* lines 69-73: partitions[idx].append(member) under the first predicate the
\* member satisfies; the value is match
classify_at(h0, predicates, member, partitions) ==
    LET loop[idx \in 0..Len(predicates)] ==
            IF idx = 0 THEN At(h0, FALSE)
            ELSE Let(<<loop[idx - 1], predicates[idx][member]>>, LAMBDA a :
                   IF a[1].raised # "None" THEN a[1]
                   ELSE IF Raised(a[2]) THEN Fails(a[1].h, a[2].raised)
                   ELSE IF appends(a[2].value, a[1].value)
                        THEN At(list_append(a[1].h, partitions[idx], member), TRUE)
                   ELSE a[1])
    IN loop[Len(predicates)]

\* lines 67-77: partitions is a tuple of new lists
multi_partition_at(h0, predicates, iterable) ==
    Let(<<h0 \o empty_partitions(predicates), predicates, iterable>>, LAMBDA a :
      Let([idx \in 1..Len(a[2]) |-> Len(a[1]) - Len(a[2]) + idx],
          LAMBDA partitions :
        LET loop[k \in 0..Len(a[1][a[3]])] ==
                IF k = 0 THEN At(a[1], partitions)
                ELSE Go(loop[k - 1], LAMBDA s :
                       Go(classify_at(s.h, a[2], s.h[a[3]][k], partitions),
                          LAMBDA c :
                            IF unmatched(c.value) THEN Fails(c.h, "ValueError")
                            ELSE At(c.h, partitions)))
        IN loop[Len(a[1][a[3]])]))

\* lines 88-91
singles_by_age_at(h0, members) ==
    Go(partition_at(h0, graph_at(h0, is_single, members), members), LAMBDA s89 :
      Let(s89.value[1], LAMBDA single :
        Go(multi_partition_at(s89.h,
                              <<graph_at(s89.h, is_single_18, single),
                                graph_at(s89.h, is_single_31, single),
                                graph_at(s89.h, is_single_46, single),
                                graph_at(s89.h, catch_all, single)>>, single),
           LAMBDA s90 :
             At(s90.h, <<s90.value[1], s90.value[2], s90.value[3]>>))))

\* lines 31-35: households is a new dict, and the defaultdict makes a new
\* list for a household it does not hold yet
household_grouper_at(h0, members) ==
    Let(<<allocate(h0, Empty), members>>, LAMBDA a :
      Let(newest(a[1]), LAMBDA households :
        LET loop[k \in 0..Len(a[1][a[2]])] ==
                IF k = 0 THEN At(a[1], households)
                ELSE Go(loop[k - 1], LAMBDA s :
                  Let(s.h[a[2]][k], LAMBDA member :
                    IF ~has(s.h[member], "householdAnchorPersonUuid")
                    THEN Fails(s.h, "KeyError")
                    ELSE Let(s.h[member].householdAnchorPersonUuid, LAMBDA uuid :
                      Let(IF uuid \in DOMAIN s.h[households] THEN s.h
                          ELSE setitem(allocate(s.h, <<>>), households, uuid,
                                       newest(s.h) + 1),
                          LAMBDA h34 :
                            At(list_append(h34, h34[households][uuid], member),
                               households)))))
        IN loop[Len(a[1][a[2]])]))

\* lines 101-102: new_callings[calling['memberId']] = calling, for the
\* callings of one sub-group
visit_callings_at(s0, new_callings, children) ==
    Go(s0, LAMBDA s :
      IF ~has(s.h[children], "callings") THEN Fails(s.h, "KeyError")
      ELSE Let(s.h[children].callings, LAMBDA list :
             LET loop[k \in 0..Len(s.h[list])] ==
                     IF k = 0 THEN s
                     ELSE Go(loop[k - 1], LAMBDA p :
                            Let(p.h[list][k], LAMBDA calling :
                              IF ~has(p.h[calling], "memberId")
                              THEN Fails(p.h, "KeyError")
                              ELSE At(setitem(p.h, new_callings,
                                              p.h[calling].memberId, calling),
                                      new_callings)))
             IN loop[Len(s.h[list])]))

\* lines 100-102: the sub-groups of one group
visit_group_at(s0, new_callings, group) ==
    Go(s0, LAMBDA s :
      IF ~has(s.h[group], "children") THEN Fails(s.h, "KeyError")
      ELSE Let(s.h[group].children, LAMBDA list :
             LET loop[k \in 0..Len(s.h[list])] ==
                     IF k = 0 THEN s
                     ELSE Let(loop[k - 1], LAMBDA p :
                            visit_callings_at(p, new_callings, s.h[list][k]))
             IN loop[Len(s.h[list])]))

\* lines 98-104: new_callings is a new dict
callings_by_member_id_at(h0, callings) ==
    Let(<<allocate(h0, Empty), callings>>, LAMBDA a :
      Let(newest(a[1]), LAMBDA new_callings :
        LET loop[k \in 0..Len(a[1][a[2]])] ==
                IF k = 0 THEN At(a[1], new_callings)
                ELSE Let(loop[k - 1], LAMBDA p :
                       visit_group_at(p, new_callings, a[1][a[2]][k]))
        IN loop[Len(a[1][a[2]])]))

\* line 137: recommends is a new dict
recommend_finder_maker_at(h0, recommend_status) ==
    Let(<<allocate(h0, Empty), recommend_status>>, LAMBDA a :
      Let(newest(a[1]), LAMBDA recommends :
        LET loop[k \in 0..Len(a[1][a[2]])] ==
                IF k = 0 THEN At(a[1], recommends)
                ELSE Go(loop[k - 1], LAMBDA s :
                       Let(s.h[a[2]][k], LAMBDA i :
                         IF ~has(s.h[i], "id") THEN Fails(s.h, "KeyError")
                         ELSE At(setitem(s.h, recommends, s.h[i].id, i),
                                 recommends)))
        IN loop[Len(a[1][a[2]])]))

\* lines 166 and 180: groups = {i: [] for i in names}, a new dict of new lists
empty_groups(h, names) ==
    allocate(h \o [n \in 1..Len(names) |-> <<>>],
             [i \in Elements(names) |->
                Len(h) + (CHOOSE n \in 1..Len(names) : names[n] = i)])

\* lines 180-188
priesthood_grouper_at(h0, members) ==
    Let(<<empty_groups(h0, PRIESTHOODS), members>>, LAMBDA a :
      Let(newest(a[1]), LAMBDA groups :
        LET loop[k \in 0..Len(a[1][a[2]])] ==
                IF k = 0 THEN At(a[1], groups)
                ELSE Go(loop[k - 1], LAMBDA s :
                  Let(s.h[a[2]][k], LAMBDA member :
                    IF ~has(s.h[member], "priesthoodOffice")
                    THEN Fails(s.h, "KeyError")
                    ELSE At(list_append(s.h,
                               s.h[groups][bucket_of(s.h[member].priesthoodOffice,
                                                     s.h[groups])],
                               member), groups)))
        IN loop[Len(a[1][a[2]])]))

\* lines 166-170
recommend_status_grouper_at(h0, recommend_status) ==
    Let(<<empty_groups(h0, STATUSES), recommend_status>>, LAMBDA a :
      Let(newest(a[1]), LAMBDA groups :
        LET loop[k \in 0..Len(a[1][a[2]])] ==
                IF k = 0 THEN At(a[1], groups)
                ELSE Go(loop[k - 1], LAMBDA s :
                  Let(<<s.h[a[2]][k],
                        dict_get(s.h, s.h[a[2]][k], "recommendStatus")>>,
                      LAMBDA g :
                        \* g[1] is status, g[2] what line 168 reads
                        IF ~truthy(g[2].value) THEN At(g[2].h, groups)
                        ELSE IF g[2].value \notin DOMAIN g[2].h[groups]
                             THEN Fails(g[2].h, "KeyError")
                        ELSE At(list_append(g[2].h, g[2].h[groups][g[2].value],
                                            g[1]), groups)))
        IN loop[Len(a[1][a[2]])]))

\* lines 212-246: the locals of process_data, each the address of a list or
\* of a dict of lists
classify_members_at(h0, self) ==
    Let(<<h0[self].member_list, h0[self].calling_finder,
          h0[self].recommend_finder, h0[self].recommend_status>>, LAMBDA o :
    Go(partition_at(h0, graph_at(h0, is_member, o[1]), o[1]), LAMBDA s212 :
    Go(multi_partition_at(s212.h, <<graph_at(s212.h, is_primary, o[1]),
                                    graph_at(s212.h, is_youth, o[1]),
                                    graph_at(s212.h, is_adult, o[1])>>, o[1]),
       LAMBDA s219 :
    Go(partition_at(s219.h, graph_at(s219.h, is_male, s219.value[2]),
                    s219.value[2]), LAMBDA s220 :
    Go(partition_at(s220.h, graph_at(s220.h, is_male, s219.value[3]),
                    s219.value[3]), LAMBDA s222 :
    Go(partition_at(s222.h,
                    graph_at(s222.h,
                             LAMBDA i : has_calling(closed_over(s222.h, o[2]), i),
                             s222.value[1]), s222.value[1]), LAMBDA s223 :
    Go(partition_at(s223.h,
                    graph_at(s223.h,
                             LAMBDA i : has_calling(closed_over(s223.h, o[2]), i),
                             s222.value[2]), s222.value[2]), LAMBDA s224 :
    Go(priesthood_grouper_at(s224.h, s222.value[1]), LAMBDA s226 :
    Go(priesthood_grouper_at(s226.h, s220.value[1]), LAMBDA s233 :
    Go(multi_partition_at(s233.h,
                          <<graph_at(s233.h, is_age_0_to_2, s219.value[1]),
                            graph_at(s233.h, is_age_3_to_7, s219.value[1]),
                            graph_at(s233.h, is_age_8_plus, s219.value[1])>>,
                          s219.value[1]), LAMBDA s241 :
    Go(singles_by_age_at(s241.h, s212.value[1]), LAMBDA s243 :
    Go(partition_at(s243.h,
                    graph_at(s243.h,
                             LAMBDA i : is_endowed(closed_over(s243.h, o[3]), i),
                             s219.value[3]), s219.value[3]), LAMBDA s245 :
    Go(recommend_status_grouper_at(s245.h, o[4]), LAMBDA s246 :
        At(s246.h,
           [members |-> s212.value[1], non_members |-> s212.value[2],
            primary |-> s219.value[1], young_people |-> s219.value[2],
            adults |-> s219.value[3],
            young_men |-> s220.value[1], young_women |-> s220.value[2],
            brethren |-> s222.value[1], sisters |-> s222.value[2],
            brethren_with_callings |-> s223.value[1],
            brethren_no_calling |-> s223.value[2],
            sisters_with_callings |-> s224.value[1],
            sisters_no_calling |-> s224.value[2],
            bpg |-> s226.value, ypg |-> s233.value,
            age_0_to_2 |-> s241.value[1], age_3_to_7 |-> s241.value[2],
            age_8_plus |-> s241.value[3],
            single_18 |-> s243.value[1], single_31 |-> s243.value[2],
            single_46 |-> s243.value[3],
            endowed |-> s245.value[1], not_endowed |-> s245.value[2],
            recommend_groups |-> s246.value]))))))))))))))

\* the lists the locals refer to, as len() and the subscripts of lines
\* 227-234 read them
lists_of(h, locals) ==
    [name \in DOMAIN locals |->
        IF name \in {"bpg", "ypg", "recommend_groups"}
        THEN [key \in DOMAIN h[locals[name]] |-> h[h[locals[name]][key]]]
        ELSE h[locals[name]]]

\* lines 248-281: the writes to the dict self.data
data_writes_at(h0, self, module, locals) ==
    Let(<<h0[self].data, h0[self].member_list, lists_of(h0, locals)>>, LAMBDA o :
      Go(household_grouper_at(
            setitem(setitem(h0, o[1], "members", Len(o[3].members)),
                    o[1], "non_members", Len(o[3].non_members)), o[2]),
         LAMBDA s250 :
           Let(lists_of(s250.h, locals), LAMBDA v :
             Let([s250.h EXCEPT ![o[1]] =
                    counts(v)
                      @@ [households |-> Cardinality(DOMAIN s250.h[s250.value])]
                      @@ @], LAMBDA h273 :
               At([h273 EXCEPT ![o[1]] =
                     IF module = "main"
                     THEN main_aggregates(@, v.recommend_groups)
                     ELSE common_aggregates(@, v.recommend_groups)], None)))))

\* lines 208-281
process_data_at(h0, self, module) ==
    Go(classify_members_at(h0, self), LAMBDA s246 :
        data_writes_at(s246.h, self, module, s246.value))

\* lines 198-206: self is a new object and self.data a new dict; the
\* attributes member_list, callings and recommend_status are the addresses
\* the caller passed, the two finders the dicts they closed over.  self is
\* the address of the object, which exists whether __init__ returns or raises.
MemberReport_at(h0, module, member_list, callings, recommend_status) ==
    Let(allocate(h0, Empty), LAMBDA h198 :
      Let(newest(h198), LAMBDA self :
        [self |-> self] @@
        Go(recommend_finder_maker_at(
              setitem(setitem(setitem(h198, self, "member_list", member_list),
                              self, "callings", callings),
                      self, "recommend_status", recommend_status),
              recommend_status), LAMBDA s202 :
          Let(setitem(s202.h, self, "recommend_finder", s202.value), LAMBDA h202 :
            Go(callings_by_member_id_at(h202, h202[self].callings), LAMBDA s203 :
              Let(allocate(setitem(s203.h, self, "calling_finder", s203.value),
                           Empty), LAMBDA h205 :
                process_data_at(setitem(h205, self, "data", newest(h205)),
                                self, module)))))))

----------------------------------------------------------------------------
(* The report run on the heap, main.py:193-198: the three collections are  *)
(* loaded from JSON, each list and record an object of its own, and        *)
(* MemberReport is given their addresses.                                  *)

MaxExtra == 1         \* most members added to the fixed part of a roster
MaxRecommends == 2    \* most recommend records of a collection

\* a list of flat records: the records, then the list of their addresses
place_list(h, records) ==
    allocate(h \o records, [k \in 1..Len(records) |-> Len(h) + k])

\* a list of dicts whose key holds a list: every inner list is placed by
\* Place, then its dict, then the list of the dicts
RECURSIVE place_nested(_, _, _, _, _)
place_nested(h, dicts, key, Place(_, _), sofar) ==
    IF dicts = <<>> THEN allocate(h, sofar)
    ELSE Let(Place(h, Head(dicts)[key]), LAMBDA h1 :
           Let(allocate(h1, store(Head(dicts), key, newest(h1))), LAMBDA h2 :
             place_nested(h2, Tail(dicts), key, Place,
                          Append(sofar, newest(h2)))))

place_sub_groups(h, children) ==
    place_nested(h, children, "callings", place_list, <<>>)
place_callings(h, callings) ==
    place_nested(h, callings, "children", place_sub_groups, <<>>)

\* the values of the objects: a list of flat records, and the callings
records_of(h, list) == [k \in 1..Len(h[list]) |-> h[h[list][k]]]
sub_groups_of(h, list) ==
    [k \in 1..Len(h[list]) |->
        [key \in DOMAIN h[h[list][k]] |->
            IF key = "callings" THEN records_of(h, h[h[list][k]][key])
            ELSE h[h[list][k]][key]]]
callings_of(h, list) ==
    [k \in 1..Len(h[list]) |->
        [key \in DOMAIN h[h[list][k]] |->
            IF key = "children" THEN sub_groups_of(h, h[h[list][k]][key])
            ELSE h[h[list][k]][key]]]

\* members with and without the fields the steps read
HeapMembers ==
    {[Brother EXCEPT !.legacyCmisId = 5, !.isSingleAdult = TRUE],
     [Child EXCEPT !.legacyCmisId = 6, !.isMember = FALSE],
     without([YoungMan EXCEPT !.legacyCmisId = 7], "householdAnchorPersonUuid"),
     without([Sister EXCEPT !.legacyCmisId = 8], "age")}

\* recommend records of the brother and of the sister: a known status, an
\* unknown one, and a record without id
HeapRecommends ==
    {[id |-> 1, recommendStatus |-> "ACTIVE", endowmentDate |-> "2001-01-01"],
     [id |-> 2, recommendStatus |-> "EXPIRING_THIS_MONTH", endowmentDate |-> None],
     [id |-> 2, recommendStatus |-> "BOGUS", endowmentDate |-> "2001-01-01"],
     [recommendStatus |-> "CANCELED", endowmentDate |-> "2001-01-01"]}

\* calling collections of every shape, and one whose record has no memberId
HeapCallings ==
    {nest(shape, records) :
        shape \in Shapes,
        records \in {<<>>, <<[memberId |-> 1, position |-> "Bishop"]>>,
                     <<[memberId |-> 2, position |-> "Clerk"],
                       [memberId |-> 2, position |-> "Bishop"]>>,
                     <<[position |-> "Clerk"]>>}}

\* what the caller holds before the call: the three collections as objects
loaded(member_list, callings, recommend_status) ==
    Let(place_list(Empty, member_list), LAMBDA h1 :
      Let(place_callings(h1, callings), LAMBDA h2 :
        Let(place_list(h2, recommend_status), LAMBDA h3 :
          [h |-> h3, member_list |-> newest(h1), callings |-> newest(h2),
           recommend_status |-> newest(h3)])))

InitHeap ==
    /\ ret = NotCalled
    /\ member_report = Empty
    /\ out = NotCalled
    /\ TEST_YEAR = NoYear
    /\ \E module \in {"common", "main"} :
         \E o \in {loaded(prefix \o extra, WardCallings, recommend_status) :
                      prefix \in Prefixes, extra \in SeqUpTo(HeapMembers, MaxExtra),
                      recommend_status \in SeqUpTo(HeapRecommends, MaxRecommends)}
               \cup {loaded(Ward, callings, WardRecommends) :
                        callings \in HeapCallings} :
            /\ heap = o.h
            /\ call = [fn |-> "MemberReport", module |-> module,
                       member_list |-> o.member_list, callings |-> o.callings,
                       recommend_status |-> o.recommend_status]

\* report = MemberReport(member_list, callings, recommend_status), the
\* arguments being addresses.  member_report is the object as it is on the
\* heap after the call, ret its address.
ConstructOnHeap ==
    /\ call.fn = "MemberReport"
    /\ Pending(ret)
    /\ \E r \in {MemberReport_at(heap, call.module, call.member_list,
                                call.callings, call.recommend_status)} :
          /\ heap' = r.h
          /\ member_report' = r.h[r.self]
          /\ ret' = IF r.raised = "None" THEN Ok(r.self) ELSE Raise(r.raised)
    /\ UNCHANGED <<call, out, TEST_YEAR>>

SpecHeap == InitHeap /\ [][ConstructOnHeap]_vars

----------------------------------------------------------------------------
(* Claims about the inputs of the constructor *)

\* the constructor has run on the heap
HeapRun == call.fn = "MemberReport" /\ ~Pending(ret) /\ heap # Empty

\* C20: building a report leaves its inputs unchanged: when
\* MemberReport(member_list, callings, recommend_status) has returned or
\* raised, the caller's three references are the same, each collection holds
\* the same objects in the same order, and the collections and every record
\* in them are equal to their values before the call.
C20_InputsUnchanged ==
    [][call.fn = "MemberReport" =>
          /\ call' = call
          /\ heap'[call.member_list] = heap[call.member_list]
          /\ heap'[call.callings] = heap[call.callings]
          /\ heap'[call.recommend_status] = heap[call.recommend_status]
          /\ records_of(heap', call.member_list)
                = records_of(heap, call.member_list)
          /\ callings_of(heap', call.callings)
                = callings_of(heap, call.callings)
          /\ records_of(heap', call.recommend_status)
                = records_of(heap, call.recommend_status)]_vars

\* the constructor has returned over the ward and two recommend records: it
\* has made new objects, its lookups and lists hold the caller's records
\* themselves, and the grouper has read the status of both records
C20_Witness ==
    /\ HeapRun
    /\ Returned(ret)
    /\ Len(heap[call.member_list]) = 4
    /\ Len(heap[call.recommend_status]) = 2
    /\ heap[member_report.data].recommend_active = 1
    /\ heap[member_report.data].recommend_expiring_this_month = 1
    /\ heap[member_report.recommend_finder][1] = heap[call.recommend_status][1]
    /\ member_report.member_list = call.member_list
    /\ newest(heap) > member_report.data

\* the constructor has raised in the grouping of the households, after the
\* partitions, the groupers and the lookups have run
C20_WitnessRaised ==
    /\ HeapRun
    /\ Raises(ret, "KeyError")
    /\ Len(heap[call.member_list]) = 5
    /\ has(member_report, "data")
    /\ DOMAIN heap[member_report.data] = {"members", "non_members"}

\* the constructor has flattened callings of two groups into its lookup
C20_WitnessCallings ==
    /\ HeapRun
    /\ Returned(ret)
    /\ Len(heap[call.callings]) = 2
    /\ heap[member_report.calling_finder][2]
          = heap[heap[heap[heap[heap[call.callings][2]].children][1]].callings][1]

\* the run on the heap is the run on the values of the collections: the
\* same exception, if any, and the same self.data
C20_SameRunByValue ==
    HeapRun =>
        \E r \in {MemberReport(call.module,
                               records_of(heap, call.member_list),
                               callings_of(heap, call.callings),
                               records_of(heap, call.recommend_status))} :
            /\ r.raised = ret.raised
            /\ has(r.self, "data") <=> has(member_report, "data")
            /\ has(r.self, "data") => heap[member_report.data] = r.self.data

----------------------------------------------------------------------------
(* Claims about the flattening of the callings *)

\* the places of the calling records of a collection: group, sub-group and
\* index in the calling list
Places(callings) ==
    {t \in (DOMAIN callings) \X (1..MaxCallings + 1) \X (1..MaxCallings + 1) :
        /\ t[2] \in DOMAIN callings[t[1]].children
        /\ t[3] \in DOMAIN callings[t[1]].children[t[2]].callings}

RecordAt(callings, t) == callings[t[1]].children[t[2]].callings[t[3]]

\* t comes before u in traversal order: group, then sub-group, then list
Before(t, u) ==
    \/ t[1] < u[1]
    \/ t[1] = u[1] /\ t[2] < u[2]
    \/ t[1] = u[1] /\ t[2] = u[2] /\ t[3] < u[3]

\* the last record of the collection that carries the id
LastCalling(callings, id) ==
    RecordAt(callings,
             CHOOSE t \in Places(callings) :
                /\ RecordAt(callings, t).memberId = id
                /\ \A u \in Places(callings) :
                      RecordAt(callings, u).memberId = id
                          => (u = t \/ Before(u, t)))

\* C21: flattening callings is last-write-wins: the lookup holds exactly one
\* entry for every member identifier of the collection, equal to the last
\* record with that identifier in traversal order (group, then sub-group,
\* then calling list order); the size of the lookup is the number of
\* distinct identifiers, and an adult whose identifier is on several
\* records is counted once as 'with calling'.
C21_LastWriteWins ==
    ReportRun =>
        LET by_id == member_report.calling_finder
            callings == call.callings
            ids == {RecordAt(callings, t).memberId : t \in Places(callings)}
        IN /\ DOMAIN by_id = ids
           /\ \A id \in ids : by_id[id] = LastCalling(callings, id)
           /\ Cardinality(DOMAIN by_id) = Cardinality(ids)
           /\ Returned(ret) =>
                 ret.value.data.brethren_with_callings
                     + ret.value.data.sisters_with_callings
                 = Counted(call.member_list, LAMBDA i :
                       i.age > 17 /\ i.legacyCmisId \in ids)

\* the brother is on two records, in a group each: the lookup holds the
\* second and he is counted once
C21_Witness ==
    /\ call.fn = "MemberReport"
    /\ Returned(ret)
    /\ call.member_list = Ward
    /\ Len(call.callings) = 2
    /\ call.callings[1].children[1].callings[1]
          = [memberId |-> 1, position |-> "Bishop"]
    /\ call.callings[2].children[1].callings[1]
          = [memberId |-> 1, position |-> "Clerk"]
    /\ DOMAIN member_report.calling_finder = {1}
    /\ member_report.calling_finder[1].position = "Clerk"
    /\ ret.value.data.brethren_with_callings = 1

\* the sister is on two records of one calling list
C21_WitnessOneList ==
    /\ call.fn = "MemberReport"
    /\ Returned(ret)
    /\ Len(call.callings) = 1
    /\ Len(call.callings[1].children) = 1
    /\ call.callings[1].children[1].callings
          = <<[memberId |-> 2, position |-> "Clerk"],
              [memberId |-> 2, position |-> "Bishop"]>>
    /\ member_report.calling_finder[2].position = "Bishop"
    /\ ret.value.data.sisters_with_callings = 1

\* the sister is on two records, in a sub-group each
C21_WitnessSubGroups ==
    /\ call.fn = "MemberReport"
    /\ Returned(ret)
    /\ Len(call.callings) = 1
    /\ Len(call.callings[1].children) = 2
    /\ call.callings[1].children[1].callings[1].memberId = 2
    /\ call.callings[1].children[2].callings[1]
          = [memberId |-> 2, position |-> "Clerk"]
    /\ call.callings[1].children[1].callings[1].position = "Bishop"
    /\ member_report.calling_finder[2].position = "Clerk"

====
